---- MODULE Spec2Model ----
(***************************************************************************)
(* Model of the tic-tac bytecode engine (src/src/bytecode/mod.rs).         *)
(*                                                                         *)
(* A Program is a list of Defns (constant pool, code, local_count) and an  *)
(* entry point.  Program::eval is one interpretation loop over an active   *)
(* frame (code, locals, iptr) and an explicit call stack; one iteration of *)
(* the loop is one action of this model, one action per opcode.            *)
(*                                                                         *)
(* Representation choices:                                                 *)
(*  - Val is a tagged record [k, v]; k is one of "B" "I" "F" "T" "C".      *)
(*  - i64 is modelled with IntBits bits, usize with UsizeBits bits, so     *)
(*    that overflow stays observable inside the model checker's integers.  *)
(*  - f64 is modelled by exact rationals <<n, d>> with d >= 0; d = 0       *)
(*    encodes +inf (n = 1), -inf (n = -1) and NaN (n = 0).  Rounding and   *)
(*    the sign of zero are not modelled.                                   *)
(*  - registers are 0-based as in the source; register r of a frame is     *)
(*    element r + 1 of the sequence locals.                                *)
(*  - a Rust panic (index out of bounds, slice out of range, arithmetic    *)
(*    overflow in a debug build) ends the run with status "panic".         *)
(***************************************************************************)
EXTENDS Integers, Sequences, FiniteSets, TLC

VARIABLES prog, build, hist, input, output, sink, stack, code, locals, iptr,
          status, result,
          text, row, defns, parsed,
          ctx, emitted

\* the state of bytecode::parse::parse and of ast::FunctionCtx
front == <<text, row, defns, parsed, ctx, emitted>>

\* the state of Program::eval
back == <<prog, build, hist, input, output, sink, stack, code, locals, iptr,
          status, result>>

vars == <<prog, build, hist, input, output, sink, stack, code, locals, iptr,
          status, result, text, row, defns, parsed, ctx, emitted>>

-----------------------------------------------------------------------------
(* Bounds *)

\* width of the modelled i64
IntBits == 10
\* width of the modelled usize (instruction pointer arithmetic)
UsizeBits == 16
\* deepest call stack explored
MaxDepth == 3
\* longest input stream explored
MaxInput == 2

RECURSIVE Pow2(_)
Pow2(n) == IF n = 0 THEN 1 ELSE 2 * Pow2(n - 1)

I64_MIN == 0 - Pow2(IntBits - 1)
I64_MAX == Pow2(IntBits - 1) - 1
USIZE_MOD == Pow2(UsizeBits)

\* Option<Addr>::None of Return(None)
None == 0 - 1
\* an input stream element standing for a read that reports an I/O error
IoError == 0 - 1

-----------------------------------------------------------------------------
(* Val *)

B(b) == [k |-> "B", v |-> b]
I(i) == [k |-> "I", v |-> i]
F(n, d) == [k |-> "F", v |-> <<n, d>>]
T(t) == [k |-> "T", v |-> t]
C(c) == [k |-> "C", v |-> c]

NaN == F(0, 0)
Inf == F(1, 0)
NegInf == F(0 - 1, 0)

Abs(n) == IF n < 0 THEN 0 - n ELSE n
Sign(n) == IF n < 0 THEN 0 - 1 ELSE IF n > 0 THEN 1 ELSE 0

RECURSIVE GCD(_, _)
GCD(m, n) == IF n = 0 THEN m ELSE GCD(n, m % n)

\* the float with value n / d, d >= 0, in lowest terms
FNorm(n, d) ==
    IF d = 0 THEN F(Sign(n), 0)
    ELSE LET g == GCD(Abs(n), d) IN F(n \div g, d \div g)

IsNaN(x) == x.v = <<0, 0>>
IsInf(x) == x.v[2] = 0 /\ x.v[1] # 0

\* IEEE-754 addition, subtraction, multiplication, division on the rationals
FAdd(x, y) ==
    IF IsNaN(x) \/ IsNaN(y) THEN NaN
    ELSE IF IsInf(x) /\ IsInf(y) THEN (IF x = y THEN x ELSE NaN)
    ELSE IF IsInf(x) THEN x
    ELSE IF IsInf(y) THEN y
    ELSE FNorm(x.v[1] * y.v[2] + y.v[1] * x.v[2], x.v[2] * y.v[2])

FNeg(x) == F(0 - x.v[1], x.v[2])

FSub(x, y) == FAdd(x, FNeg(y))

FMul(x, y) ==
    IF IsNaN(x) \/ IsNaN(y) THEN NaN
    ELSE IF x.v[2] = 0 \/ y.v[2] = 0 THEN F(Sign(x.v[1]) * Sign(y.v[1]), 0)
    ELSE FNorm(x.v[1] * y.v[1], x.v[2] * y.v[2])

FDiv(x, y) ==
    IF IsNaN(x) \/ IsNaN(y) THEN NaN
    ELSE LET s == IF y.v[1] < 0 THEN 0 - 1 ELSE 1
             num == s * x.v[1] * y.v[2]
             den == s * x.v[2] * y.v[1]
         IN FNorm(num, den)

-----------------------------------------------------------------------------
(* Result<Val, EvalError> *)

Ok(val) == [ok |-> TRUE, val |-> val]
EvalError == [ok |-> FALSE]

\* two's-complement bit operations on the modelled i64
ToBits(n) == n % Pow2(IntBits)
FromBits(u) == IF u >= Pow2(IntBits - 1) THEN u - Pow2(IntBits) ELSE u

\* i64::checked_add / checked_sub / checked_mul: None on overflow
InI64(n) == I64_MIN <= n /\ n <= I64_MAX

\* mutation: wrapping_add in place of checked_add
checked_add_wrapping(b, c) == Ok(I(FromBits(ToBits(b + c))))

checked_add(b, c) == IF InI64(b + c) THEN Ok(I(b + c)) ELSE EvalError
checked_sub(b, c) == IF InI64(b - c) THEN Ok(I(b - c)) ELSE EvalError
checked_mul(b, c) == IF InI64(b * c) THEN Ok(I(b * c)) ELSE EvalError

\* mutation: division rounding toward negative infinity
TruncDiv_floor(b, c) == b \div c

\* Rust integer division truncates toward zero
TruncDiv(b, c) == Sign(b) * Sign(c) * (Abs(b) \div Abs(c))
TruncRem(b, c) == b - c * TruncDiv(b, c)

\* i64::checked_div / checked_rem: None when c = 0 or on MIN / -1
checked_div(b, c) ==
    IF c = 0 \/ (b = I64_MIN /\ c = 0 - 1) THEN EvalError
    ELSE Ok(I(TruncDiv(b, c)))
checked_rem(b, c) ==
    IF c = 0 \/ (b = I64_MIN /\ c = 0 - 1) THEN EvalError
    ELSE Ok(I(TruncRem(b, c)))

add(x, y) ==
    IF x.k = "I" /\ y.k = "I" THEN checked_add(x.v, y.v)
    ELSE IF x.k = "F" /\ y.k = "F" THEN Ok(FAdd(x, y))
    ELSE EvalError

sub(x, y) ==
    IF x.k = "I" /\ y.k = "I" THEN checked_sub(x.v, y.v)
    ELSE IF x.k = "F" /\ y.k = "F" THEN Ok(FSub(x, y))
    ELSE EvalError

mul(x, y) ==
    IF x.k = "I" /\ y.k = "I" THEN checked_mul(x.v, y.v)
    ELSE IF x.k = "F" /\ y.k = "F" THEN Ok(FMul(x, y))
    ELSE EvalError

div(x, y) ==
    IF x.k = "I" /\ y.k = "I" THEN checked_div(x.v, y.v)
    ELSE IF x.k = "F" /\ y.k = "F" THEN Ok(FDiv(x, y))
    ELSE EvalError

\* the float arm of Rem divides
rem(x, y) ==
    IF x.k = "I" /\ y.k = "I" THEN checked_rem(x.v, y.v)
    ELSE IF x.k = "F" /\ y.k = "F" THEN Ok(FDiv(x, y))
    ELSE EvalError

\* bitwise operations, bit by bit
AndBit(p, q) == IF p = 1 /\ q = 1 THEN 1 ELSE 0
OrBit(p, q) == IF p = 1 \/ q = 1 THEN 1 ELSE 0
XorBit(p, q) == IF p # q THEN 1 ELSE 0

Bit(op, p, q) ==
    IF op = "&" THEN AndBit(p, q)
    ELSE IF op = "|" THEN OrBit(p, q)
    ELSE XorBit(p, q)

RECURSIVE BitOp(_, _, _, _)
BitOp(op, x, y, n) ==
    IF n = 0 THEN 0
    ELSE Bit(op, x % 2, y % 2) + 2 * BitOp(op, x \div 2, y \div 2, n - 1)

IntAnd(b, c) == FromBits(BitOp("&", ToBits(b), ToBits(c), IntBits))
IntOr(b, c) == FromBits(BitOp("|", ToBits(b), ToBits(c), IntBits))
IntXor(b, c) == FromBits(BitOp("^", ToBits(b), ToBits(c), IntBits))

bitand(x, y) ==
    IF x.k = "I" /\ y.k = "I" THEN Ok(I(IntAnd(x.v, y.v)))
    ELSE IF x.k = "B" /\ y.k = "B" THEN Ok(B(x.v /\ y.v))
    ELSE EvalError

bitor(x, y) ==
    IF x.k = "I" /\ y.k = "I" THEN Ok(I(IntOr(x.v, y.v)))
    ELSE IF x.k = "B" /\ y.k = "B" THEN Ok(B(x.v \/ y.v))
    ELSE EvalError

\* there is no boolean arm
bitxor(x, y) ==
    IF x.k = "I" /\ y.k = "I" THEN Ok(I(IntXor(x.v, y.v)))
    ELSE EvalError

\* mutation: tuples are compared by length only
eq_shallow(x, y) ==
    /\ x.k = y.k
    /\ IF x.k = "T" THEN Len(x.v) = Len(y.v)
       ELSE IF x.k = "F" THEN ~IsNaN(x) /\ ~IsNaN(y) /\ x.v = y.v
       ELSE x.v = y.v

\* derived PartialEq for Val: same variant and equal payload; NaN # NaN
RECURSIVE eq(_, _)
eq(x, y) ==
    IF x.k # y.k THEN FALSE
    ELSE IF x.k = "F" THEN ~IsNaN(x) /\ ~IsNaN(y) /\ x.v = y.v
    ELSE IF x.k = "T" THEN
        /\ Len(x.v) = Len(y.v)
        /\ \A j \in 1..Len(x.v) : eq(x.v[j], y.v[j])
    ELSE x.v = y.v

\* PartialOrd for Val: "Less", "Equal", "Greater", or "None" when unordered
IntCmp(b, c) == IF b < c THEN "Less" ELSE IF b > c THEN "Greater" ELSE "Equal"

FloatCmp(x, y) ==
    IF IsNaN(x) \/ IsNaN(y) THEN "None"
    ELSE IF x = y THEN "Equal"
    ELSE IF IsInf(x) THEN (IF x.v[1] > 0 THEN "Greater" ELSE "Less")
    ELSE IF IsInf(y) THEN (IF y.v[1] > 0 THEN "Less" ELSE "Greater")
    ELSE IntCmp(x.v[1] * y.v[2], y.v[1] * x.v[2])

BoolCmp(b, c) == IF b = c THEN "Equal" ELSE IF c THEN "Less" ELSE "Greater"

partial_cmp(x, y) ==
    IF x.k = "I" /\ y.k = "I" THEN IntCmp(x.v, y.v)
    ELSE IF x.k = "F" /\ y.k = "F" THEN FloatCmp(x, y)
    ELSE IF x.k = "B" /\ y.k = "B" THEN BoolCmp(x.v, y.v)
    ELSE "None"

\* the provided lt / gt / le / ge of PartialOrd: false when unordered
lt(x, y) == partial_cmp(x, y) = "Less"
gt(x, y) == partial_cmp(x, y) = "Greater"
le(x, y) == partial_cmp(x, y) \in {"Less", "Equal"}
ge(x, y) == partial_cmp(x, y) \in {"Greater", "Equal"}

\* marks the panic among the outcomes of sum
Abort == 0 - 1

\* mutation: a backward offset is added instead of subtracted
sum_forward(a, b) == {a + Abs(b)}

\* mutation: the fall-through increment is applied after the jump as well
sum_skip(a, b) == {a + b + 1}

\* fn sum(a: usize, b: isize) -> usize.  a - |b| below zero overflows usize:
\* a debug build panics, a release build wraps.  The result is the set of
\* outcomes a build can produce; Abort marks the panic.
sum(a, b) ==
    IF b > 0 THEN {a + b}
    ELSE IF a - Abs(b) >= 0 THEN {a - Abs(b)}
    ELSE {USIZE_MOD + a - Abs(b), Abort}

-----------------------------------------------------------------------------
(* Instr *)

Ins(op, a, b, c) == [op |-> op, a |-> a, b |-> b, c |-> c]

Const(a, k) == Ins("Const", a, k, 0)
Copy(a, b) == Ins("Copy", a, b, 0)
Add(a, b, c) == Ins("Add", a, b, c)
Sub(a, b, c) == Ins("Sub", a, b, c)
Mul(a, b, c) == Ins("Mul", a, b, c)
Div(a, b, c) == Ins("Div", a, b, c)
Rem(a, b, c) == Ins("Rem", a, b, c)
And(a, b, c) == Ins("And", a, b, c)
Orr(a, b, c) == Ins("Orr", a, b, c)
Xor(a, b, c) == Ins("Xor", a, b, c)
Eq(a, b, c) == Ins("Eq", a, b, c)
Neq(a, b, c) == Ins("Neq", a, b, c)
Lt(a, b, c) == Ins("Lt", a, b, c)
Gt(a, b, c) == Ins("Gt", a, b, c)
Leq(a, b, c) == Ins("Leq", a, b, c)
Geq(a, b, c) == Ins("Geq", a, b, c)
Jump(off) == Ins("Jump", off, 0, 0)
CondJump(a, t, f) == Ins("CondJump", a, t, f)
MkTup(a, b, c) == Ins("MkTup", a, b, c)
IdxTup(a, t, i) == Ins("IdxTup", a, t, i)
Call(a, f, c) == Ins("Call", a, f, c)
Return(a) == Ins("Return", a, 0, 0)
Read(a) == Ins("Read", a, 0, 0)
Write(a) == Ins("Write", a, 0, 0)

Defn(consts, instrs, local_count) ==
    [consts |-> consts, code |-> instrs, local_count |-> local_count]

Program(ds) == [defns |-> ds, entry_point |-> 0]

-----------------------------------------------------------------------------
(* Program::eval *)

\* result before eval has returned
NoVal == [k |-> "none", v |-> 0]

\* vec![I(0); n]
RECURSIVE Zeros(_)
Zeros(n) == IF n = 0 THEN <<>> ELSE Append(Zeros(n - 1), I(0))

Running == status = "running"

\* the Defn `code` refers to
CurDefn == prog.defns[code + 1]

\* mutation: the implicit instruction returns register 0
Fetch_reg0 ==
    IF iptr < Len(CurDefn.code) THEN CurDefn.code[iptr + 1] ELSE Return(0)

\* code.code.get(iptr).unwrap_or_else(|| &Return(None))
Fetch ==
    IF iptr < Len(CurDefn.code) THEN CurDefn.code[iptr + 1] ELSE Return(None)

Executing(op) == Running /\ Fetch.op = op

\* r is a valid index of locals
InRange(r) == r < Len(locals)
Reg(r) == locals[r + 1]

\* an indexing panic unwinds out of eval
Panic ==
    /\ status' = "panic"
    /\ UNCHANGED <<front, prog, build, hist, input, output, sink, stack, code, locals, iptr, result>>

\* mutation: an error discards the bytes written so far
Fail_rollback ==
    /\ status' = "err"
    /\ output' = <<>>
    /\ UNCHANGED <<front, prog, build, hist, input, sink, stack, code, locals, iptr, result>>

\* return Err(EvalError {}) / the ? operator
Fail ==
    /\ status' = "err"
    /\ UNCHANGED <<front, prog, build, hist, input, output, sink, stack, code, locals, iptr, result>>

\* mutation: the saved frame of the caller shares its registers with the
\* running frame
Store_aliased(a, val) ==
    IF InRange(a)
    THEN /\ locals' = [locals EXCEPT ![a + 1] = val]
         /\ iptr' = iptr + 1
         /\ stack' = IF stack # <<>> /\ a < Len(stack[Len(stack)].locals)
                      THEN [stack EXCEPT ![Len(stack)].locals[a + 1] = val]
                      ELSE stack
         /\ UNCHANGED <<front, prog, build, hist, input, output, sink, code,
                        status, result>>
    ELSE Panic

\* locals[a as usize] = val, then iptr += 1 at the bottom of the loop
Store(a, val) ==
    IF InRange(a)
    THEN /\ locals' = [locals EXCEPT ![a + 1] = val]
         /\ iptr' = iptr + 1
         /\ UNCHANGED <<front, prog, build, hist, input, output, sink, stack, code, status, result>>
    ELSE Panic

\* let mut code = &self.defns[entry_point]; let mut locals = vec![I(0); ..]
EvalStart ==
    /\ status = "init"
    /\ IF prog.entry_point < Len(prog.defns)
       THEN /\ code' = prog.entry_point
            /\ locals' = Zeros(prog.defns[prog.entry_point + 1].local_count)
            /\ iptr' = 0
            /\ status' = "running"
            /\ UNCHANGED <<front, prog, build, hist, input, output, sink, stack, result>>
       ELSE Panic

ExecConst ==
    /\ Executing("Const")
    /\ LET ins == Fetch IN
       IF ins.b < Len(CurDefn.consts)
       THEN Store(ins.a, CurDefn.consts[ins.b + 1])
       ELSE Panic

ExecCopy ==
    /\ Executing("Copy")
    /\ LET ins == Fetch IN
       IF InRange(ins.b) THEN Store(ins.a, Reg(ins.b)) ELSE Panic

\* the operator impl an arithmetic or bitwise opcode dispatches to
Apply(op, x, y) ==
    CASE op = "Add" -> add(x, y)
      [] op = "Sub" -> sub(x, y)
      [] op = "Mul" -> mul(x, y)
      [] op = "Div" -> div(x, y)
      [] op = "Rem" -> rem(x, y)
      [] op = "And" -> bitand(x, y)
      [] op = "Orr" -> bitor(x, y)
      [] op = "Xor" -> bitxor(x, y)

\* locals[a] = (&locals[b] op &locals[c])?
ExecArith(op) ==
    /\ Executing(op)
    /\ LET ins == Fetch IN
       IF InRange(ins.b) /\ InRange(ins.c)
       THEN LET r == Apply(op, Reg(ins.b), Reg(ins.c)) IN
            IF r.ok THEN Store(ins.a, r.val) ELSE Fail
       ELSE Panic

ExecAdd == ExecArith("Add")
ExecSub == ExecArith("Sub")
ExecMul == ExecArith("Mul")
ExecDiv == ExecArith("Div")
ExecRem == ExecArith("Rem")
ExecAnd == ExecArith("And")
ExecOrr == ExecArith("Orr")
ExecXor == ExecArith("Xor")

ne(x, y) == ~eq(x, y)

\* the comparison a comparison opcode dispatches to
Compare(op, x, y) ==
    CASE op = "Eq" -> eq(x, y)
      [] op = "Neq" -> ne(x, y)
      [] op = "Lt" -> lt(x, y)
      [] op = "Gt" -> gt(x, y)
      [] op = "Leq" -> le(x, y)
      [] op = "Geq" -> ge(x, y)

\* locals[a] = B(&locals[b] cmp &locals[c])
ExecCmp(op) ==
    /\ Executing(op)
    /\ LET ins == Fetch IN
       IF InRange(ins.b) /\ InRange(ins.c)
       THEN Store(ins.a, B(Compare(op, Reg(ins.b), Reg(ins.c))))
       ELSE Panic

ExecEq == ExecCmp("Eq")
ExecNeq == ExecCmp("Neq")
ExecLt == ExecCmp("Lt")
ExecGt == ExecCmp("Gt")
ExecLeq == ExecCmp("Leq")
ExecGeq == ExecCmp("Geq")

\* locals[a] = T(locals[b as usize..(b + c) as usize].into()); b + c is u8
ExecMkTup ==
    /\ Executing("MkTup")
    /\ LET ins == Fetch IN
       IF ins.b + ins.c <= 255 /\ ins.b + ins.c <= Len(locals)
       THEN Store(ins.a, T(SubSeq(locals, ins.b + 1, ins.b + ins.c)))
       ELSE Panic

ExecIdxTup ==
    /\ Executing("IdxTup")
    /\ LET ins == Fetch IN
       IF InRange(ins.b) /\ InRange(ins.c)
       THEN LET t == Reg(ins.b)
                i == Reg(ins.c)
            IN IF t.k = "T" /\ i.k = "I"
               THEN IF 0 <= i.v /\ i.v < Len(t.v)
                    THEN Store(ins.a, t.v[i.v + 1])
                    ELSE Panic
               ELSE Fail
       ELSE Panic

\* the Defn entered by Call(a, f, c): self.defns[f as usize]
Callee(f) == f

\* mutation: every register of the new frame is a copy of the argument
new_locals_filled(n, arg) == [j \in 1..n |-> arg]

\* let mut new_locals = vec![I(0); n]; new_locals[0] = arg
new_locals(n, arg) == [Zeros(n) EXCEPT ![1] = arg]

ExecCall ==
    /\ Executing("Call")
    /\ Len(stack) < MaxDepth
    /\ LET ins == Fetch
           new_code == Callee(ins.b)
       IN IF /\ new_code < Len(prog.defns)
             /\ InRange(ins.c)
             /\ prog.defns[new_code + 1].local_count > 0
          THEN /\ stack' = Append(stack, [addr |-> ins.a, code |-> code,
                                          locals |-> locals, iptr |-> iptr])
               /\ code' = new_code
               /\ locals' = new_locals(prog.defns[new_code + 1].local_count,
                                       Reg(ins.c))
               /\ iptr' = 0
               /\ UNCHANGED <<front, prog, build, hist, input, output, sink, status, result>>
          ELSE Panic

\* mutation: the caller resumes at the Call itself
Resume_at_call(new_iptr) == new_iptr

\* iptr = new_iptr, then iptr += 1 at the bottom of the loop
Resume(new_iptr) == new_iptr + 1

\* mutation: any Return ends the evaluation, whatever the call stack holds
ExecReturn_early ==
    /\ Executing("Return")
    /\ LET ins == Fetch IN
       IF ins.a # None /\ ~InRange(ins.a) THEN Panic
       ELSE /\ status' = "ok"
            /\ result' = IF ins.a # None THEN Reg(ins.a) ELSE T(<<>>)
            /\ UNCHANGED <<front, prog, build, hist, input, output, sink,
                           stack, code, locals, iptr>>

ExecReturn ==
    /\ Executing("Return")
    /\ LET ins == Fetch IN
       IF ins.a # None /\ ~InRange(ins.a) THEN Panic
       ELSE LET res == IF ins.a # None THEN Reg(ins.a) ELSE T(<<>>) IN
            IF stack # <<>>
            THEN LET top == stack[Len(stack)] IN
                 IF top.addr < Len(top.locals)
                 THEN /\ stack' = SubSeq(stack, 1, Len(stack) - 1)
                      /\ locals' = [top.locals EXCEPT ![top.addr + 1] = res]
                      /\ code' = top.code
                      /\ iptr' = Resume(top.iptr)
                      /\ UNCHANGED <<front, prog, build, hist, input, output, sink, status, result>>
                 ELSE /\ stack' = SubSeq(stack, 1, Len(stack) - 1)
                      /\ status' = "panic"
                      /\ UNCHANGED <<front, prog, build, hist, input, output, sink, code, locals,
                                     iptr, result>>
            ELSE /\ status' = "ok"
                 /\ result' = res
                 /\ UNCHANGED <<front, prog, build, hist, input, output, sink, stack, code, locals,
                                iptr>>

\* input.read(&mut buf[..]): an exhausted stream returns Ok(0) and leaves buf
ExecRead ==
    /\ Executing("Read")
    /\ LET ins == Fetch IN
       IF input # <<>> /\ Head(input) = IoError THEN Fail
       ELSE LET byte == IF input = <<>> THEN 0 ELSE Head(input)
                rest == IF input = <<>> THEN <<>> ELSE Tail(input)
            IN /\ input' = rest
               /\ IF InRange(ins.a)
                  THEN /\ locals' = [locals EXCEPT ![ins.a + 1] = I(byte)]
                       /\ iptr' = iptr + 1
                       /\ hist' = [hist EXCEPT !.reads = Append(@, byte)]
                       /\ UNCHANGED status
                  ELSE /\ status' = "panic"
                       /\ UNCHANGED <<locals, iptr, hist>>
               /\ UNCHANGED <<front, prog, build, output, sink, stack, code, result>>

\* output.write(&[x as u8]): the sink takes sink.cap bytes, after that it
\* either reports an error or accepts nothing (Ok(0))
ExecWrite ==
    /\ Executing("Write")
    /\ LET ins == Fetch IN
       IF ~InRange(ins.a) THEN Panic
       ELSE IF Reg(ins.a).k # "I" THEN Fail
       ELSE IF Len(output) >= sink.cap /\ sink.full = "err" THEN Fail
       ELSE /\ output' = IF Len(output) < sink.cap
                         THEN Append(output, Reg(ins.a).v % 256)
                         ELSE output
            /\ iptr' = iptr + 1
            /\ hist' = [hist EXCEPT !.writes = Append(@, Reg(ins.a).v % 256)]
            /\ UNCHANGED <<front, prog, build, input, sink, stack, code, locals,
                           status, result>>

\* mutation: an overflowing sum panics or wraps whatever the build
JumpTo_any(off) ==
    \E target \in sum(iptr, off) :
        IF target = Abort THEN Panic
        ELSE /\ iptr' = target
             /\ UNCHANGED <<front, prog, build, hist, input, output, sink, stack,
                            code, locals, status, result>>

\* iptr = sum(iptr, off); continue.  Where sum overflows, the build decides
\* between the panic and the wrapped value.
JumpTo(off) ==
    \E target \in sum(iptr, off) :
        /\ Abort \in sum(iptr, off) => (target = Abort <=> build = "debug")
        /\ IF target = Abort THEN Panic
           ELSE /\ iptr' = target
                /\ UNCHANGED <<front, prog, build, hist, input, output, sink, stack,
                               code, locals, status, result>>

\* mutation: a Jump continues without moving the instruction pointer
ExecJump_hold ==
    /\ Executing("Jump")
    /\ JumpTo(0)

ExecJump ==
    /\ Executing("Jump")
    /\ JumpTo(Fetch.a)

\* mutation: the two offsets are exchanged
ExecCondJump_swapped ==
    /\ Executing("CondJump")
    /\ LET ins == Fetch IN
       IF ~InRange(ins.a) THEN Panic
       ELSE IF Reg(ins.a) = B(TRUE) THEN JumpTo(ins.c)
       ELSE IF Reg(ins.a) = B(FALSE) THEN JumpTo(ins.b)
       ELSE Fail

ExecCondJump ==
    /\ Executing("CondJump")
    /\ LET ins == Fetch IN
       IF ~InRange(ins.a) THEN Panic
       ELSE IF Reg(ins.a) = B(TRUE) THEN JumpTo(ins.b)
       ELSE IF Reg(ins.a) = B(FALSE) THEN JumpTo(ins.c)
       ELSE Fail

Next ==
    \/ EvalStart
    \/ ExecConst
    \/ ExecCopy
    \/ ExecAdd
    \/ ExecSub
    \/ ExecMul
    \/ ExecDiv
    \/ ExecRem
    \/ ExecAnd
    \/ ExecOrr
    \/ ExecXor
    \/ ExecEq
    \/ ExecNeq
    \/ ExecLt
    \/ ExecGt
    \/ ExecLeq
    \/ ExecGeq
    \/ ExecMkTup
    \/ ExecIdxTup
    \/ ExecCall
    \/ ExecReturn
    \/ ExecRead
    \/ ExecWrite
    \/ ExecJump
    \/ ExecCondJump

-----------------------------------------------------------------------------
(* Programs and streams eval is run on *)

\* the programs of src/src/bytecode/tests.rs
test_cond_jump(k0) ==
    Program(<<Defn(<<k0, I(3), I(5)>>,
                   <<Const(0, 0), Const(1, 1), Const(2, 2), CondJump(0, 1, 2),
                     Return(1), Return(2)>>, 3)>>)

test_bitwise ==
    Program(<<Defn(<<I(1), I(2), I(4), I(0 - 1), I(0 - 8)>>,
                   <<Const(0, 0), Const(1, 1), Orr(0, 0, 1), Const(2, 2),
                     Orr(1, 0, 2), And(2, 0, 1), Eq(0, 2, 0), Const(4, 3),
                     Xor(3, 1, 4), Const(4, 4), Eq(1, 3, 4), And(0, 0, 1),
                     Return(0)>>, 5)>>)

test_jump ==
    Program(<<Defn(<<I(3), I(5)>>,
                   <<Jump(1), Const(0, 0), Const(0, 1), Return(0)>>, 2)>>)

test_backwards_jump ==
    Program(<<Defn(<<I(3), I(5)>>,
                   <<Jump(3), Const(0, 0), Jump(3), Const(0, 1), Jump(0 - 3),
                     Return(0)>>, 2)>>)

call_return ==
    Program(<<Defn(<<I(42), I(69), C(1)>>,
                   <<Const(0, 0), Const(1, 1), MkTup(0, 0, 2), Const(1, 2),
                     Call(0, 1, 0), Return(0)>>, 2),
              Defn(<<I(0), I(1)>>,
                   <<Const(1, 0), IdxTup(1, 0, 1), Const(2, 1), IdxTup(2, 0, 2),
                     Add(0, 1, 2), Return(0)>>, 3)>>)

arith ==
    Program(<<Defn(<<I(1), I(2), I(7), I(15)>>,
                   <<Const(0, 0), Const(1, 1), Add(0, 0, 1), Mul(0, 0, 0),
                     Const(1, 2), Rem(0, 0, 1), Const(1, 3), Div(0, 1, 0),
                     Return(0)>>, 3)>>)

io ==
    Program(<<Defn(<<>>,
                   <<Read(0), Read(1), Add(1, 1, 1), Write(1), Write(0)>>, 2)>>)

TestPrograms ==
    {test_cond_jump(B(FALSE)), test_cond_jump(B(TRUE)), test_cond_jump(I(0)),
     test_bitwise, test_jump, test_backwards_jump, call_return, arith}

\* a Program with no Defn at all
NoDefns == Program(<<>>)

\* values loaded into the operand registers of a probed instruction
ValPool ==
    {B(TRUE), B(FALSE),
     I(0), I(1), I(0 - 1), I(2), I(3), I(0 - 7), I(300), I(I64_MAX), I(I64_MIN),
     F(0, 1), F(1, 1), F(0 - 3, 2), NaN,
     T(<<>>), T(<<I(1), I(2), I(3)>>), T(<<I(1), I(2), I(4)>>),
     C(0), C(1)}

BinOps ==
    {"Add", "Sub", "Mul", "Div", "Rem", "And", "Orr", "Xor",
     "Eq", "Neq", "Lt", "Gt", "Leq", "Geq", "IdxTup"}

\* x0 := k0; x1 := k1; x2 := x0 op x1; return x2
ValueProbe(op, x, y) ==
    Program(<<Defn(<<x, y>>,
                   <<Const(0, 0), Const(1, 1), Ins(op, 2, 0, 1), Return(2)>>,
                   3)>>)

ValueProbes == {ValueProbe(op, x, y) : op \in BinOps, x \in ValPool, y \in ValPool}

\* register and constant indices tried as operands; a frame of the probed
\* Defn has MaxReg registers, so MaxReg itself is out of bounds
MaxReg == 3
Addrs == 0..MaxReg

AllOps ==
    BinOps \cup {"Const", "Copy", "MkTup", "Call", "Return", "Read", "Write",
                 "CondJump"}

\* one instruction with arbitrary operands after x0 := (1, 2, 3); x1 := 1
OperandProbe(op, a, b, c) ==
    Program(<<Defn(<<T(<<I(1), I(2), I(3)>>), I(1), B(TRUE)>>,
                   <<Const(0, 0), Const(1, 1), Ins(op, a, b, c), Return(2)>>,
                   MaxReg),
              Defn(<<>>, <<Return(0)>>, 1)>>)

OperandProbes ==
    {OperandProbe(op, a, b, c) : op \in AllOps, a \in Addrs, b \in Addrs, c \in Addrs}
    \cup {OperandProbe("MkTup", 0, b, c) : b \in {0, 2, 3, 4, 200, 255}, c \in {0, 1, 56, 255}}
    \cup {OperandProbe("Return", None, 0, 0)}

\* jump offsets tried
MaxOff == 3
Offsets == (0 - MaxOff)..MaxOff

\* a Jump at index at, every other instruction loads a constant into x0
JumpCode(at, off) ==
    [j \in 1..4 |-> IF j = at + 1 THEN Jump(off) ELSE Const(0, 0)]

JumpProbes ==
    {Program(<<Defn(<<I(5)>>, JumpCode(at, off), 1)>>) : at \in 0..3, off \in Offsets}

\* x0 := k0; cond x0 t f
CondJumpProbes ==
    {Program(<<Defn(<<x, I(5)>>,
                    <<Const(0, 0), CondJump(0, t, f), Const(1, 1), Return(1)>>,
                    2)>>) :
        x \in {B(TRUE), B(FALSE), I(1), T(<<>>), C(0)}, t \in Offsets, f \in Offsets}

\* bodies of a called Defn: explicit and implicit returns
CalleeCodes ==
    {<<>>, <<Return(None)>>, <<Return(0)>>, <<Return(5)>>,
     <<Const(1, 0), Return(1)>>, <<Const(1, 0)>>, <<Jump(2)>>, <<Jump(0 - 1)>>,
     <<Const(1, 0), Call(1, 1, 1), Return(1)>>}

\* x0 := k0; x1 := k1; xa := xf(xc); return x0 -- with three Defns to call,
\* the last of which has no registers
CallProbe(w, a, f, c, body) ==
    Program(<<Defn(<<I(7), w>>,
                   <<Const(0, 0), Const(1, 1), Call(a, f, c), Return(0)>>, 2),
              Defn(<<I(9)>>, body, 2),
              Defn(<<>>, <<Return(None)>>, 0)>>)

CallProbes ==
    {CallProbe(w, a, f, c, body) :
        w \in {C(0), C(1), C(2), C(7), I(1), B(TRUE), F(1, 1), T(<<>>)},
        a \in 0..2, f \in Addrs, c \in 0..2, body \in CalleeCodes}

PurePrograms ==
    TestPrograms \cup {NoDefns} \cup ValueProbes \cup OperandProbes
                 \cup JumpProbes \cup CondJumpProbes \cup CallProbes

\* programs that read and write
IoPrograms ==
    {io}
    \cup {Program(<<Defn(<<I(300), I(0 - 1), B(TRUE)>>,
                         <<Read(0), Const(1, k), Write(w), Write(0), Read(a)>>,
                         2)>>) : k \in 0..2, w \in 0..2, a \in 0..2}

Bytes == {0, 2, 13, 255}

RECURSIVE SeqsUpTo(_, _)
SeqsUpTo(S, n) ==
    IF n = 0 THEN {<<>>}
    ELSE LET shorter == SeqsUpTo(S, n - 1) IN
         shorter \cup {Append(q, x) : q \in shorter, x \in S}

Inputs == SeqsUpTo(Bytes \cup {IoError}, MaxInput)

\* a Vec<u8>, and sinks that are full after one byte
VecSink == [cap |-> 1000, full |-> "err"]
Sinks == {VecSink, [cap |-> 1, full |-> "err"], [cap |-> 1, full |-> "zero"]}

\* no text is being parsed and no function compiled
FrontIdle ==
    /\ text = ""
    /\ row = 0
    /\ defns = <<>>
    /\ parsed = [state |-> "idle"]
    /\ ctx = [state |-> "idle"]
    /\ emitted = <<>>

\* overflow checks: on in a debug build, off in a release build
Builds == {"debug", "release"}

\* hist observes the run: the input stream eval was given, the bytes the
\* completed Reads stored, the low bytes of the completed Writes
Init ==
    /\ \/ prog \in PurePrograms /\ input = <<>> /\ sink = VecSink
       \/ prog \in IoPrograms /\ input \in Inputs /\ sink \in Sinks
    /\ build \in Builds
    /\ hist = [given |-> input, reads |-> <<>>, writes |-> <<>>]
    /\ FrontIdle
    /\ output = <<>>
    /\ stack = <<>>
    /\ code = 0
    /\ locals = <<>>
    /\ iptr = 0
    /\ status = "init"
    /\ result = NoVal

Spec == Init /\ [][Next]_vars

-----------------------------------------------------------------------------
(* parse_util::Buffer.  A text is a string; offsets are 0-based as in the   *)
(* source, Char(s, i) is the character at 1-based position i.              *)

Char(s, i) == SubSeq(s, i, i)
From(s, offset) == SubSeq(s, offset + 1, Len(s))
Upto(s, offset) == SubSeq(s, 1, offset)

\* char::is_whitespace, on the characters the texts are made of
IsWhitespace(c) == c \in {" ", "\t"}
\* char::is_digit(10)
IsDigit(c) == c \in {"0", "1", "2", "3", "4", "5", "6", "7", "8", "9"}

\* the predicates the parser passes to find / til / parse_til
Matches(pat, c) ==
    CASE pat = "whitespace" -> IsWhitespace(c)
      [] pat = "not whitespace" -> ~IsWhitespace(c)
      [] pat = "not digit" -> ~IsDigit(c)

\* str::find(pat): the offset of the first character matching pat, or None
RECURSIVE FindFrom(_, _, _)
FindFrom(s, pat, i) ==
    IF i > Len(s) THEN None
    ELSE IF Matches(pat, Char(s, i)) THEN i - 1
    ELSE FindFrom(s, pat, i + 1)

find(s, pat) == FindFrom(s, pat, 1)

\* str::starts_with
str_starts_with(s, prefix) ==
    Len(s) >= Len(prefix) /\ Upto(s, Len(prefix)) = prefix

\* str::trim_right
RECURSIVE str_trim_right(_)
str_trim_right(s) ==
    IF s # "" /\ IsWhitespace(Char(s, Len(s)))
    THEN str_trim_right(Upto(s, Len(s) - 1))
    ELSE s

\* str::contains(char)
RECURSIVE str_contains(_, _)
str_contains(s, c) ==
    IF s = "" THEN FALSE
    ELSE Head(s) = c \/ str_contains(Tail(s), c)

Buffer(t, r, c) == [text |-> t, row |-> r, col |-> c]

Min(a, b) == IF a < b THEN a ELSE b

advance(buf, offset) ==
    LET o == Min(offset, Len(buf.text)) IN
    Buffer(From(buf.text, o), buf.row, buf.col + o)

trim_left(buf) ==
    LET o == find(buf.text, "not whitespace") IN
    IF o # None THEN advance(buf, o) ELSE advance(buf, Len(buf.text))

trim_right(buf) == [buf EXCEPT !.text = str_trim_right(@)]

trim(buf) == trim_right(trim_left(buf))

\* ParseError::Expected { msg, row, span }; a usize column becomes the span
\* (col, col)
ParseError(msg, r, c) == [msg |-> msg, row |-> r, span |-> <<c, c>>]

\* Err(self.expected(msg))
expected(buf, msg) ==
    [ok |-> FALSE, err |-> ParseError(msg, buf.row, buf.col)]

\* Ok(buf) of a ParseSuccess, Ok((buf, val)) of a ParseResult
Success(buf) == [ok |-> TRUE, buf |-> buf]
Parsed(buf, val) == [ok |-> TRUE, buf |-> buf, val |-> val]

end(buf) ==
    IF buf.text = "" THEN Success(buf) ELSE expected(buf, "end of input")

space(buf) ==
    LET new_input == trim_left(buf) IN
    IF new_input = buf THEN expected(buf, "whitespace")
    ELSE Success(new_input)

space_or_end(buf) ==
    IF buf.text = "" THEN Success(buf) ELSE space(buf)

starts_with(buf, prefix) == str_starts_with(buf.text, prefix)

Quoted(s) == "\"" \o s \o "\""

token(buf, tok) ==
    IF starts_with(buf, tok) THEN Success(advance(buf, Len(tok)))
    ELSE expected(buf, Quoted(tok))

\* "a", "b", ... of the message of first_token_err
RECURSIVE JoinQuoted(_)
JoinQuoted(tokens) ==
    IF Len(tokens) = 1 THEN Quoted(tokens[1])
    ELSE Quoted(tokens[1]) \o ", " \o JoinQuoted(Tail(tokens))

first_token_err(buf, tokens) ==
    IF Len(tokens) = 1 THEN expected(buf, Quoted(tokens[1]))
    ELSE IF Len(tokens) = 2
    THEN expected(buf, "either " \o Quoted(tokens[1]) \o " or "
                          \o Quoted(tokens[2]))
    ELSE expected(buf, "one of "
                          \o JoinQuoted(SubSeq(tokens, 1, Len(tokens) - 1))
                          \o ", or " \o Quoted(tokens[Len(tokens)]))

\* the first token of the list the text starts with
RECURSIVE FirstMatch(_, _, _)
FirstMatch(buf, tokens, i) ==
    IF i > Len(tokens) THEN first_token_err(buf, tokens)
    ELSE IF starts_with(buf, tokens[i])
    THEN Parsed(advance(buf, Len(tokens[i])), Upto(buf.text, Len(tokens[i])))
    ELSE FirstMatch(buf, tokens, i + 1)

first_token_of(buf, tokens) ==
    IF tokens = <<>> THEN Parsed(buf, "") ELSE FirstMatch(buf, tokens, 1)

til(buf, pat) ==
    LET idx == find(buf.text, pat) IN
    IF idx # None THEN Parsed(advance(buf, idx), Upto(buf.text, idx))
    ELSE Parsed(advance(buf, Len(buf.text)), buf.text)

\* <T as FromStr>::from_str for the number types the parser reads.  A value
\* is [ok |-> TRUE, val], an error [ok |-> FALSE, msg] with the Display text
\* of the error.

DigitVal(c) ==
    CASE c = "0" -> 0 [] c = "1" -> 1 [] c = "2" -> 2 [] c = "3" -> 3
      [] c = "4" -> 4 [] c = "5" -> 5 [] c = "6" -> 6 [] c = "7" -> 7
      [] c = "8" -> 8 [] c = "9" -> 9

FromStrErr(msg) == [ok |-> FALSE, msg |-> msg]

\* the digits of s accumulated onto acc; stops at the first character that
\* is no digit and at the first value above max
RECURSIVE ReadDigits(_, _, _, _)
ReadDigits(s, acc, max, overflow) ==
    IF s = "" THEN [ok |-> TRUE, val |-> acc]
    ELSE IF ~IsDigit(Head(s))
    THEN FromStrErr("invalid digit found in string")
    ELSE LET n == acc * 10 + DigitVal(Head(s)) IN
         IF n > max THEN FromStrErr(overflow)
         ELSE ReadDigits(Tail(s), n, max, overflow)

\* core::num::from_str_radix(s, 10) for an integer type with the given range
parse_int(s, min, max) ==
    IF s = "" THEN FromStrErr("cannot parse integer from empty string")
    ELSE LET negative == Head(s) = "-" /\ min < 0
             digits == IF Head(s) = "+" \/ negative THEN Tail(s) ELSE s
         IN
         IF digits = ""
         THEN FromStrErr("cannot parse integer from empty string")
         ELSE IF negative
         THEN LET r == ReadDigits(digits, 0, 0 - min,
                           "number too small to fit in target type")
              IN IF r.ok THEN [ok |-> TRUE, val |-> 0 - r.val] ELSE r
         ELSE ReadDigits(digits, 0, max,
                         "number too large to fit in target type")

RECURSIVE Pow10(_)
Pow10(n) == IF n = 0 THEN 1 ELSE 10 * Pow10(n - 1)

\* longest fraction read or rendered
MaxFrac == 3

AllDigits(s) == \A i \in 1..Len(s) : IsDigit(Char(s, i))

RECURSIVE FindChar(_, _, _)
FindChar(s, c, i) ==
    IF i > Len(s) THEN None
    ELSE IF Char(s, i) = c THEN i - 1
    ELSE FindChar(s, c, i + 1)

\* f64::from_str on decimal literals [+-]digits.digits (no exponent, at most
\* MaxFrac fraction digits); "NaN.0" and "inf.0" are no float literals
parse_float(s) ==
    LET signed == s # "" /\ Head(s) \in {"+", "-"}
        body == IF signed THEN Tail(s) ELSE s
        dot == FindChar(body, ".", 1)
        whole == IF dot = None THEN body ELSE Upto(body, dot)
        frac == IF dot = None THEN "" ELSE From(body, dot + 1)
    IN
    IF \/ ~AllDigits(whole) \/ ~AllDigits(frac)
       \/ (whole = "" /\ frac = "")
       \/ Len(frac) > MaxFrac
    THEN FromStrErr("invalid float literal")
    ELSE LET w == IF whole = "" THEN 0
                  ELSE ReadDigits(whole, 0, Pow10(2 * MaxFrac), "").val
             f == IF frac = "" THEN 0
                  ELSE ReadDigits(frac, 0, Pow10(MaxFrac), "").val
             n == w * Pow10(Len(frac)) + f
         IN [ok |-> TRUE,
             val |-> FNorm(IF signed /\ Head(s) = "-" THEN 0 - n ELSE n,
                           Pow10(Len(frac))).v]

U8_MAX == 255
U16_MAX == 65535

from_str(ty, s) ==
    CASE ty = "u8" -> parse_int(s, 0, U8_MAX)
      [] ty = "u16" -> parse_int(s, 0, U16_MAX)
      [] ty = "usize" -> parse_int(s, 0, USIZE_MOD - 1)
      [] ty = "i64" -> parse_int(s, I64_MIN, I64_MAX)
      [] ty = "f64" -> parse_float(s)

parse_til(buf, pat, ty) ==
    LET r == til(buf, pat)
        v == from_str(ty, r.val)
    IN
    IF v.ok THEN Parsed(r.buf, v.val)
    ELSE expected(buf, "error parsing token: " \o r.val \o ", error "
                          \o v.msg)

-----------------------------------------------------------------------------
(* bytecode::parse *)

parse_const(s) ==
    IF s = "true" THEN [ok |-> TRUE, val |-> B(TRUE)]
    ELSE IF s = "false" THEN [ok |-> TRUE, val |-> B(FALSE)]
    ELSE IF str_contains(s, ".")
    THEN LET r == from_str("f64", s) IN
         IF r.ok THEN [ok |-> TRUE, val |-> [k |-> "F", v |-> r.val]] ELSE r
    ELSE IF str_starts_with(s, "f")
    THEN LET r == from_str("u16", Tail(s)) IN
         IF r.ok THEN [ok |-> TRUE, val |-> C(r.val)] ELSE r
    ELSE LET r == from_str("i64", s) IN
         IF r.ok THEN [ok |-> TRUE, val |-> I(r.val)] ELSE r

\* the while loop of parse_constants
RECURSIVE ConstantsLoop(_, _)
ConstantsLoop(buf, consts) ==
    IF buf.text = "" THEN Parsed(buf, consts)
    ELSE LET r == til(trim_left(buf), "whitespace")
             k == parse_const(r.val)
         IN
         IF k.ok THEN ConstantsLoop(r.buf, Append(consts, k.val))
         ELSE expected(r.buf, "a constant")

parse_constants(buf) == ConstantsLoop(buf, <<>>)

\* ParseExt::addr: prefix, then the digits of an Addr
addr(buf, prefix) ==
    LET t == token(trim_left(buf), prefix) IN
    IF ~t.ok THEN t ELSE parse_til(t.buf, "not digit", "u8")

\* A line is parsed by a chain of Buffer methods joined by `?`.  The chain's
\* state is [ok |-> TRUE, buf, vals] with the values parsed so far in vals,
\* or the [ok |-> FALSE, err] that ended it.

Start(buf) == [ok |-> TRUE, buf |-> buf, vals |-> <<>>]

\* buf moves on, vals stay
Moved(p, r) == IF r.ok THEN [p EXCEPT !.buf = r.buf] ELSE r

\* buf moves on and the parsed value is kept
Kept(p, r) ==
    IF r.ok THEN [p EXCEPT !.buf = r.buf, !.vals = Append(@, r.val)] ELSE r

p_trim_left(p) == IF p.ok THEN [p EXCEPT !.buf = trim_left(@)] ELSE p
p_token(p, tok) == IF p.ok THEN Moved(p, token(p.buf, tok)) ELSE p
p_space(p) == IF p.ok THEN Moved(p, space(p.buf)) ELSE p
p_space_or_end(p) == IF p.ok THEN Moved(p, space_or_end(p.buf)) ELSE p
p_end(p) == IF p.ok THEN Moved(p, end(p.buf)) ELSE p
p_addr(p, prefix) == IF p.ok THEN Kept(p, addr(p.buf, prefix)) ELSE p
p_parse_til(p, pat, ty) ==
    IF p.ok THEN Kept(p, parse_til(p.buf, pat, ty)) ELSE p
p_constants(p) == IF p.ok THEN Kept(p, parse_constants(p.buf)) ELSE p
p_first_token_of(p, tokens) ==
    IF p.ok THEN Kept(p, first_token_of(p.buf, tokens)) ELSE p

\* the outcome of one line: [ok |-> TRUE, val] with the instruction or the
\* Defn to push, or the error
Line(val) == [ok |-> TRUE, val |-> val]

\* mutation: any function number is accepted
fn_number_any(fn_number, count) == TRUE

\* the header's number is the count of Defns parsed so far
fn_number_ok(fn_number, count) == fn_number = count

\* local_count, ":" and the constants of a header, after its function number
defn_rest(p, count) ==
    IF ~p.ok THEN p
    ELSE IF ~fn_number_ok(p.vals[1], count)
    THEN expected(p.buf, "function id f" \o ToString(count) \o ", got f"
                            \o ToString(p.vals[1]))
    ELSE p_end(p_constants(p_trim_left(p_token(p_trim_left(
            p_parse_til(p_trim_left(p), "whitespace", "u8")), ":"))))

\* defns.push(Defn { code: Vec::new(), consts, local_count })
defn_line(p) ==
    IF p.ok THEN Line(Defn(p.vals[3], <<>>, p.vals[2])) ELSE p

\* defn fN N : k1 k2 k3 ...
parse_defn(buf, count) ==
    defn_line(defn_rest(
        p_parse_til(p_token(p_space(p_token(Start(buf), "defn")), "f"),
                    "whitespace", "usize"),
        count))

return_line(p) ==
    IF ~p.ok THEN p
    ELSE IF p.vals = <<>> THEN Line(Return(None))
    ELSE Line(Return(p.vals[1]))

return_rest(p) ==
    IF ~p.ok THEN p
    ELSE IF p.buf.text = "" THEN p_end(p)
    ELSE p_end(p_addr(p, "x"))

\* return OR return x0
parse_return(buf) ==
    return_line(return_rest(p_space_or_end(p_token(Start(buf), "return"))))

write_line(p) == IF p.ok THEN Line(Write(p.vals[1])) ELSE p

\* write x0
parse_write(buf) ==
    write_line(p_end(p_addr(p_space(p_token(Start(buf), "write")), "x")))

\* the instruction of x0 := x1 op x2
BinInstr(op, a, b, c) ==
    CASE op = "+" -> Add(a, b, c)
      [] op = "-" -> Sub(a, b, c)
      [] op = "*" -> Mul(a, b, c)
      [] op = "/" -> Div(a, b, c)
      [] op = "%" -> Rem(a, b, c)

\* the second operand and what closes the form; vals = <<dest, b, op, c>>
operand_close(p) ==
    IF ~p.ok THEN p
    ELSE IF p.vals[3] = "(" THEN p_end(p_token(p_trim_left(p), ")"))
    ELSE IF p.vals[3] = "[" THEN p_end(p_token(p_trim_left(p), "]"))
    ELSE p_end(p)

operand_line(p) ==
    IF ~p.ok THEN p
    ELSE IF p.vals[3] = "(" THEN Line(Call(p.vals[1], p.vals[2], p.vals[4]))
    ELSE IF p.vals[3] = "["
    THEN Line(IdxTup(p.vals[1], p.vals[2], p.vals[4]))
    ELSE Line(BinInstr(p.vals[3], p.vals[1], p.vals[2], p.vals[4]))

\* after x0 := x1: nothing (a Copy), or op x2, (x2), [x2]
operands_rest(p) ==
    IF ~p.ok THEN p
    ELSE IF p.buf.text = "" THEN Line(Copy(p.vals[1], p.vals[2]))
    ELSE operand_line(operand_close(p_addr(
            p_first_token_of(p, <<"+", "-", "*", "/", "%", "(", "[">>),
            "x")))

const_line(p) == IF p.ok THEN Line(Const(p.vals[1], p.vals[2])) ELSE p
mktup_line(p) ==
    IF p.ok THEN Line(MkTup(p.vals[1], p.vals[2], p.vals[3])) ELSE p
read_line(p) == IF p.ok THEN Line(Read(p.vals[1])) ELSE p

\* the right-hand side of x0 := ...; vals = <<dest>>
assign_rhs(p) ==
    IF ~p.ok THEN p
    ELSE IF starts_with(p.buf, "k") THEN const_line(p_end(p_addr(p, "k")))
    ELSE IF starts_with(p.buf, "(")
    THEN mktup_line(p_end(p_token(p_trim_left(p_addr(p_token(p_trim_left(
            p_addr(p_token(p_trim_left(p), "("), "x")), ".."), "x")), ")")))
    ELSE IF starts_with(p.buf, "read")
    THEN read_line(p_end(p_token(p, "read")))
    ELSE operands_rest(p_trim_left(p_addr(p, "x")))

\* x0 := ...
parse_assign(buf) ==
    assign_rhs(p_trim_left(p_token(p_trim_left(p_addr(Start(buf), "x")),
                                   ":=")))

\* an instruction line inside a definition
parse_instr(buf) ==
    IF starts_with(buf, "return") THEN parse_return(buf)
    ELSE IF starts_with(buf, "write") THEN parse_write(buf)
    ELSE parse_assign(buf)

\* str::lines
RECURSIVE lines(_)
lines(s) ==
    IF s = "" THEN <<>>
    ELSE LET nl == FindChar(s, "\n", 1) IN
         IF nl = None THEN <<s>>
         ELSE <<Upto(s, nl)>> \o lines(From(s, nl + 1))

\* mutation: rows are counted from 0
LineBuffer_index(line, index) == trim(Buffer(line, index, 0))

\* Buffer { row: row + 1, col: 0, text: line }.trim()
LineBuffer(line, index) == trim(Buffer(line, index + 1, 0))

Parsing == parsed.state = "parsing"

\* the line the for loop is at, and its Buffer
MoreLines == Parsing /\ row < Len(lines(text))
CurLine == LineBuffer(lines(text)[row + 1], row)

IsSkipped(buf) == starts_with(buf, "#") \/ buf.text = ""
IsHeader(buf) == starts_with(buf, "defn")

\* return Err(..) out of parse
ParseFail(err) ==
    /\ parsed' = [state |-> "err", err |-> err]
    /\ UNCHANGED <<text, row, defns>>

\* Handle comments and blank lines: continue
SkipLine ==
    /\ MoreLines
    /\ IsSkipped(CurLine)
    /\ row' = row + 1
    /\ UNCHANGED <<text, defns, parsed, ctx, emitted, back>>

ParseDefnLine ==
    /\ MoreLines
    /\ ~IsSkipped(CurLine)
    /\ IsHeader(CurLine)
    /\ LET r == parse_defn(CurLine, Len(defns)) IN
       IF r.ok
       THEN /\ defns' = Append(defns, r.val)
            /\ row' = row + 1
            /\ UNCHANGED <<text, parsed>>
       ELSE ParseFail(r.err)
    /\ UNCHANGED <<ctx, emitted, back>>

\* defns.last_mut() with instr pushed onto its code
push_code(ds, instr) ==
    [ds EXCEPT ![Len(ds)].code = Append(@, instr)]

ParseInstrLine ==
    /\ MoreLines
    /\ ~IsSkipped(CurLine)
    /\ ~IsHeader(CurLine)
    /\ IF defns = <<>>
       THEN ParseFail(expected(CurLine, "to be inside a definition").err)
       ELSE LET r == parse_instr(CurLine) IN
            IF r.ok
            THEN /\ defns' = push_code(defns, r.val)
                 /\ row' = row + 1
                 /\ UNCHANGED <<text, parsed>>
            ELSE ParseFail(r.err)
    /\ UNCHANGED <<ctx, emitted, back>>

\* Ok(Program { defns, entry_point: 0 })
ParseDone ==
    /\ Parsing
    /\ row = Len(lines(text))
    /\ parsed' = [state |-> "ok", program |-> Program(defns)]
    /\ UNCHANGED <<text, row, defns, ctx, emitted, back>>

\* bin/eval.rs main: the parsed program is evaluated
EvalParsed ==
    /\ parsed.state = "ok"
    /\ status = "idle"
    /\ prog' = parsed.program
    /\ status' = "init"
    /\ UNCHANGED <<front, build, hist, input, output, sink, stack, code,
                   locals, iptr, result>>

-----------------------------------------------------------------------------
(* Display for Val, Instr and Program *)

\* the digits of the fraction rem / d, at most n of them
RECURSIVE FracDigits(_, _, _)
FracDigits(r, d, n) ==
    IF r = 0 \/ n = 0 THEN ""
    ELSE ToString((r * 10) \div d) \o FracDigits((r * 10) % d, d, n - 1)

\* format!("{}", f) of an f64
FloatText(v) ==
    IF v[2] = 0
    THEN (IF v[1] = 0 THEN "NaN" ELSE IF v[1] > 0 THEN "inf" ELSE "-inf")
    ELSE (IF v[1] < 0 THEN "-" ELSE "")
            \o ToString(Abs(v[1]) \div v[2])
            \o (IF Abs(v[1]) % v[2] = 0 THEN ""
                ELSE "." \o FracDigits(Abs(v[1]) % v[2], v[2], MaxFrac))

RECURSIVE ValText(_)
RECURSIVE JoinVals(_)
JoinVals(t) ==
    IF t = <<>> THEN ""
    ELSE IF Len(t) = 1 THEN ValText(t[1])
    ELSE ValText(t[1]) \o ", " \o JoinVals(Tail(t))

ValText(x) ==
    CASE x.k = "B" -> (IF x.v THEN "true" ELSE "false")
      [] x.k = "I" -> ToString(x.v)
      [] x.k = "F" -> (LET t == FloatText(x.v) IN
                       IF str_contains(t, ".") THEN t ELSE t \o ".0")
      [] x.k = "T" -> "(" \o JoinVals(x.v) \o ")"
      [] x.k = "C" -> "f" \o ToString(x.v)

X(a) == "x" \o ToString(a)

OpText(op) ==
    CASE op = "Add" -> "+" [] op = "Sub" -> "-" [] op = "Mul" -> "*"
      [] op = "Div" -> "/" [] op = "Rem" -> "%" [] op = "And" -> "&"
      [] op = "Orr" -> "|" [] op = "Xor" -> "^" [] op = "Eq" -> "=="
      [] op = "Neq" -> "!=" [] op = "Lt" -> "<" [] op = "Gt" -> ">"
      [] op = "Leq" -> "<=" [] op = "Geq" -> ">="

InstrText(ins) ==
    CASE ins.op = "Const" -> X(ins.a) \o " := k" \o ToString(ins.b)
      [] ins.op = "Copy" -> X(ins.a) \o " := " \o X(ins.b)
      [] ins.op = "Jump" -> "jump " \o ToString(ins.a)
      [] ins.op = "CondJump" ->
            "cond " \o X(ins.a) \o " " \o ToString(ins.b) \o " "
               \o ToString(ins.c)
      [] ins.op = "MkTup" ->
            X(ins.a) \o " := (" \o X(ins.b) \o "; " \o ToString(ins.c) \o ")"
      [] ins.op = "IdxTup" ->
            X(ins.a) \o " := " \o X(ins.b) \o "[" \o X(ins.c) \o "]"
      [] ins.op = "Call" ->
            X(ins.a) \o " := " \o X(ins.b) \o "(" \o X(ins.c) \o ")"
      [] ins.op = "Return" ->
            (IF ins.a = None THEN "return" ELSE "return " \o X(ins.a))
      [] ins.op = "Read" -> X(ins.a) \o " := read"
      [] ins.op = "Write" -> "write " \o X(ins.a)
      [] OTHER ->
            X(ins.a) \o " := " \o X(ins.b) \o " " \o OpText(ins.op) \o " "
               \o X(ins.c)

RECURSIVE ConstsText(_)
ConstsText(consts) ==
    IF consts = <<>> THEN ""
    ELSE " " \o ValText(consts[1]) \o ConstsText(Tail(consts))

RECURSIVE CodeText(_)
CodeText(instrs) ==
    IF instrs = <<>> THEN ""
    ELSE "\n    " \o InstrText(instrs[1]) \o CodeText(Tail(instrs))

DefnText(i, defn) ==
    (IF i # 0 THEN "\n\n" ELSE "")
       \o "defn f" \o ToString(i) \o " " \o ToString(defn.local_count)
       \o " :" \o ConstsText(defn.consts) \o CodeText(defn.code)

RECURSIVE DefnsText(_, _)
DefnsText(ds, i) ==
    IF i >= Len(ds) THEN ""
    ELSE DefnText(i, ds[i + 1]) \o DefnsText(ds, i + 1)

\* format!("{}", program)
ProgramText(p) == DefnsText(p.defns, 0)

-----------------------------------------------------------------------------
(* The texts parse is run on *)

\* one Defn holding one constant and one instruction
OneLine(k, ins) == Program(<<Defn(<<k>>, <<ins>>, 3)>>)

\* an instruction of every kind
InstrKinds ==
    {Ins(op, 2, 0, 1) : op \in BinOps}
       \cup {Const(1, 0), Copy(2, 1), Jump(3), Jump(0 - 2), CondJump(0, 2, 1),
             CondJump(1, 0 - 1, 3), MkTup(0, 1, 2), MkTup(2, 0, 0),
             Call(0, 1, 2), Return(None), Return(1), Read(0), Write(2)}

\* a constant of every kind
ConstKinds ==
    {B(TRUE), B(FALSE), I(0), I(0 - 7), I(I64_MAX), I(I64_MIN), F(0, 1),
     F(1, 1), F(0 - 3, 2), F(1, 8), NaN, Inf, T(<<>>), T(<<I(1), I(2)>>),
     C(0), C(1)}

RoundTripPrograms ==
    TestPrograms \cup {Program(<<>>)}
       \cup {OneLine(k, ins) : k \in ConstKinds, ins \in InstrKinds}

\* src/src/bytecode/tests.rs: call_return
call_return_text ==
    "\ndefn f0 2 : 42 69 f1\nx0 := k0\nx1 := k1\nx0 := (x0; 2)\nx1 := k2\n"
       \o "x0 := x1(x0)\nreturn x0\n\ndefn f1 3 : 0 1\nx1 := k0\n"
       \o "x1 := x0[x1]\nx2 := k1\nx2 := x0[x2]\nx0 := x1 + x2\nreturn x0\n"

\* src/src/bytecode/parse.rs: test_parse, functions f0 and f1
range_call_return_text ==
    "\ndefn f0 2 : 42 69 f1\nx0 := k0\nx1 := k1\nx0 := (x0..x1)\nx1 := k2\n"
       \o "x0 := x1(x0)\nreturn x0\n\ndefn f1 3 : 0 1\nx1 := k0\n"
       \o "x1 := x0[x1]\nx2 := k1\nx2 := x0[x2]\nx0 := x1 + x2\nreturn x0\n"

\* src/src/bytecode/tests.rs: arith and io
arith_text ==
    "\ndefn f0 3 : 1 2 7 15\nx0 := k0\nx1 := k1\nx0 := x0 + x1\n"
       \o "x0 := x0 * x0\nx1 := k2\nx0 := x0 % x1\nx1 := k3\n"
       \o "x0 := x1 / x0\nreturn x0\n"

io_text ==
    "\ndefn f0 2 :\nx0 :=read\nx1 := read\nx1 := x1 + x1\nwrite x1\n"
       \o "write x0\n"

\* every form the parser knows, with irregular spacing
forms_text ==
    "# forms\ndefn f0 3 : 7 2 f1\n  x0:= k0\nx1 :=k1\nx2 := x0-x1\n"
       \o "x2 := x2 *x1\nx2 := x2/ x1\nx2 := x2 % x0\nx1 := x2\n"
       \o "x1 := (x0..x2)\nx0 := x1[x2]\nwrite x0\nx0 := x1 ( x1 )\n"
       \o "\ndefn f1 1 :\nreturn"

TestTexts ==
    {call_return_text, range_call_return_text, arith_text, io_text,
     forms_text}

\* longest text put together from the pool of lines
MaxLines == 3

LinePool ==
    {"", "# defn f0", "defn f0 2 : 1 f0 2.5", "  defn f1 1 :",
     "defn f1 2 : oops", "defnf0 1 :", "x0 := k0", "x1 := x0 + x0 ",
     "x1 := x0 junk", "return", "return x0 x1", "jump 1"}

RECURSIVE PoolTextsUpTo(_)
PoolTextsUpTo(n) ==
    IF n = 0 THEN {""}
    ELSE LET shorter == PoolTextsUpTo(n - 1) IN
         shorter \cup {t \o l \o "\n" : t \in shorter, l \in LinePool}

Texts ==
    {ProgramText(p) : p \in RoundTripPrograms} \cup TestTexts
       \cup PoolTextsUpTo(MaxLines)

ParseInit ==
    /\ text \in Texts
    /\ row = 0
    /\ defns = <<>>
    /\ parsed = [state |-> "parsing"]
    /\ ctx = [state |-> "idle"]
    /\ emitted = <<>>
    /\ prog = Program(<<>>)
    /\ build \in Builds
    /\ input = <<13, 2>>
    /\ sink = VecSink
    /\ hist = [given |-> input, reads |-> <<>>, writes |-> <<>>]
    /\ output = <<>>
    /\ stack = <<>>
    /\ code = 0
    /\ locals = <<>>
    /\ iptr = 0
    /\ status = "idle"
    /\ result = NoVal

\* parse, then eval of what was parsed; the instructions parse can produce
ParseNext ==
    \/ SkipLine
    \/ ParseDefnLine
    \/ ParseInstrLine
    \/ ParseDone
    \/ EvalParsed
    \/ EvalStart
    \/ ExecConst
    \/ ExecCopy
    \/ ExecAdd
    \/ ExecSub
    \/ ExecMul
    \/ ExecDiv
    \/ ExecRem
    \/ ExecMkTup
    \/ ExecIdxTup
    \/ ExecCall
    \/ ExecReturn
    \/ ExecRead
    \/ ExecWrite

ParseSpec == ParseInit /\ [][ParseNext]_vars

-----------------------------------------------------------------------------
(* ast: Expr, Stmt and FunctionCtx *)

Lit(val) == [e |-> "Lit", val |-> val]
Var(name) == [e |-> "Var", name |-> name]
Unop(op, arg) == [e |-> "Unop", op |-> op, arg |-> arg]
Binop(op, left, right) ==
    [e |-> "Binop", op |-> op, left |-> left, right |-> right]
CallExpr(func, args) == [e |-> "Call", func |-> func, args |-> args]
Index(tup, idx) == [e |-> "Index", tup |-> tup, idx |-> idx]
Mktup(parts) == [e |-> "Mktup", parts |-> parts]

Declare(name) == [s |-> "Declare", name |-> name]
RawExpr(expr) == [s |-> "RawExpr", expr |-> expr]
Assign(name, expr) == [s |-> "Assign", name |-> name, expr |-> expr]
If(cond, true_block, false_block) ==
    [s |-> "If", cond |-> cond, true_block |-> true_block,
     false_block |-> false_block]
While(cond, block) == [s |-> "While", cond |-> cond, block |-> block]
ReturnStmt(expr) == [s |-> "Return", expr |-> expr]

\* FunctionCtx::new; vars is the HashMap as a set of <<name, register>>
\* pairs.  log and done are history: the allocator calls of the statement
\* being compiled and the statements compiled so far.
FunctionCtx ==
    [state |-> "ok", vars |-> {}, consts |-> <<>>, free_reg |-> 0,
     max_reg |-> 0, log |-> <<>>, done |-> <<>>]

CtxPanic(c) == [c EXCEPT !.state = "panic"]

\* the registers bound to declared variables
Bound(c) == {p[2] : p \in c.vars}

\* x + 1 in u8: past 255 a debug build panics, a release build wraps
u8_inc(x) ==
    IF x < U8_MAX THEN x + 1
    ELSE IF build = "debug" THEN Abort
    ELSE 0

Pushed(c, next) ==
    [c EXCEPT !.free_reg = next,
              !.max_reg = IF next > @ THEN next ELSE @,
              !.log = Append(@, [ev |-> "push", reg |-> c.free_reg,
                                 bound |-> Bound(c)])]

\* mutation: the highest count is not recorded
push_tmp_no_max(c) ==
    IF c.state # "ok" THEN c
    ELSE [c EXCEPT !.free_reg = @ + 1,
                   !.log = Append(@, [ev |-> "push", reg |-> c.free_reg,
                                      bound |-> Bound(c)])]

\* the register handed out is c.free_reg
push_tmp(c) ==
    IF c.state # "ok" THEN c
    ELSE IF u8_inc(c.free_reg) = Abort THEN CtxPanic(c)
    ELSE Pushed(c, u8_inc(c.free_reg))

Popped(c, a, cursor) ==
    [c EXCEPT !.free_reg = cursor,
              !.log = Append(@, [ev |-> "pop", reg |-> a,
                                 bound |-> Bound(c),
                                 before |-> c.free_reg, after |-> cursor])]

\* mutation: the register of a variable is released like a temporary
pop_tmp_no_vars(c, a) ==
    IF c.state # "ok" THEN c
    ELSE IF u8_inc(a) = Abort \/ c.free_reg # u8_inc(a)
         THEN CtxPanic(c)
    ELSE Popped(c, a, a)

pop_tmp(c, a) ==
    IF c.state # "ok" THEN c
    ELSE IF a < Cardinality(c.vars) THEN Popped(c, a, c.free_reg)
    ELSE IF u8_inc(a) = Abort \/ c.free_reg # u8_inc(a)
         THEN CtxPanic(c)
    ELSE Popped(c, a, a)

RECURSIVE position(_, _, _)
position(consts, val, i) ==
    IF i > Len(consts) THEN None
    ELSE IF eq(consts[i], val) THEN i - 1
    ELSE position(consts, val, i + 1)

Found(c, idx) == [c |-> c, idx |-> idx % (U8_MAX + 1)]

get_const_at(c, val, i) ==
    IF i # None THEN Found(c, i)
    ELSE Found([c EXCEPT !.consts = Append(@, val)], Len(c.consts))

get_const(c, val) ==
    IF c.state # "ok" THEN Found(c, 0)
    ELSE get_const_at(c, val, position(c.consts, val, 1))

HasVar(c, name) == \E p \in c.vars : p[1] = name
VarReg(c, name) == (CHOOSE p \in c.vars : p[1] = name)[2]
insert(vars_map, name, reg) ==
    {p \in vars_map : p[1] # name} \cup {<<name, reg>>}

Res(c, reg, instrs) == [c |-> c, reg |-> reg, code |-> instrs]
Out(c, instrs) == [c |-> c, code |-> instrs]

RECURSIVE compile_expr(_, _)
RECURSIVE compile_parts(_, _, _)
RECURSIVE compile_stmt(_, _)
RECURSIVE compile_from(_, _, _)

lit_res(reg, k) == Res(k.c, reg, <<Const(reg, k.idx)>>)
compile_lit(c, val) == lit_res(c.free_reg, get_const(push_tmp(c), val))

compile_var(c, name) ==
    IF c.state = "ok" /\ HasVar(c, name) THEN Res(c, VarReg(c, name), <<>>)
    ELSE Res(CtxPanic(c), 0, <<>>)

UnopInstr(op) == IF op = "Negate" THEN "Neg" ELSE "Not"

unop_res(reg, op, r) ==
    Res(pop_tmp(r.c, r.reg), reg,
        Append(r.code, Ins(UnopInstr(op), reg, r.reg, 0)))
compile_unop(c, op, arg) ==
    unop_res(c.free_reg, op, compile_expr(push_tmp(c), arg))

\* mutation: the left operand is released before the right one
binop_res_left_first(reg, op, l, r) ==
    Res(pop_tmp(pop_tmp(r.c, l.reg), r.reg), reg,
        l.code \o r.code \o <<Ins(op, reg, l.reg, r.reg)>>)

binop_res(reg, op, l, r) ==
    Res(pop_tmp(pop_tmp(r.c, r.reg), l.reg), reg,
        l.code \o r.code \o <<Ins(op, reg, l.reg, r.reg)>>)
binop_right(reg, op, l, right) ==
    binop_res(reg, op, l, compile_expr(l.c, right))
compile_binop(c, op, left, right) ==
    binop_right(c.free_reg, op, compile_expr(push_tmp(c), left), right)

index_res(reg, t, i) ==
    Res(pop_tmp(pop_tmp(i.c, i.reg), t.reg), reg,
        t.code \o i.code \o <<IdxTup(reg, t.reg, i.reg)>>)
index_idx(reg, t, idx) == index_res(reg, t, compile_expr(t.c, idx))
compile_index(c, tup, idx) ==
    index_idx(c.free_reg, compile_expr(push_tmp(c), tup), idx)

Parts(c) == [c |-> c, code |-> <<>>, part_addrs |-> <<>>]
part_step(acc, r) ==
    [c |-> r.c, code |-> acc.code \o r.code,
     part_addrs |-> Append(acc.part_addrs, r.reg)]
compile_parts(acc, parts, i) ==
    IF i > Len(parts) THEN acc
    ELSE compile_parts(part_step(acc, compile_expr(acc.c, parts[i])),
                       parts, i + 1)

RECURSIVE pop_rev(_, _, _)
pop_rev(c, part_addrs, i) ==
    IF i = 0 THEN c
    ELSE pop_rev(pop_tmp(c, part_addrs[i]), part_addrs, i - 1)

start_addr(part_addrs) == IF part_addrs = <<>> THEN 0 ELSE part_addrs[1]

mktup_res(reg, acc, n) ==
    Res(pop_rev(acc.c, acc.part_addrs, Len(acc.part_addrs)), reg,
        Append(acc.code,
               MkTup(reg, start_addr(acc.part_addrs), n % (U8_MAX + 1))))
compile_mktup(c, parts) ==
    mktup_res(c.free_reg, compile_parts(Parts(push_tmp(c)), parts, 1),
              Len(parts))

compile_expr(c, expr) ==
    IF c.state # "ok" THEN Res(c, 0, <<>>)
    ELSE CASE expr.e = "Lit" -> compile_lit(c, expr.val)
           [] expr.e = "Var" -> compile_var(c, expr.name)
           [] expr.e = "Unop" -> compile_unop(c, expr.op, expr.arg)
           [] expr.e = "Binop" ->
                 compile_binop(c, expr.op, expr.left, expr.right)
           [] expr.e = "Index" -> compile_index(c, expr.tup, expr.idx)
           [] expr.e = "Mktup" -> compile_mktup(c, expr.parts)
           [] OTHER -> Res(CtxPanic(c), 0, <<>>)

declare_res(c, name, reg) ==
    Out(IF c.state = "ok" THEN [c EXCEPT !.vars = insert(@, name, reg)]
        ELSE c, <<>>)
compile_declare(c, name) == declare_res(push_tmp(c), name, c.free_reg)

raw_res(r) == Out(pop_tmp(r.c, r.reg), r.code)
compile_raw(c, expr) == raw_res(compile_expr(c, expr))

assign_res(dest, r) ==
    Out(pop_tmp(r.c, r.reg), Append(r.code, Copy(dest, r.reg)))
compile_assign(c, name, expr) ==
    IF ~HasVar(c, name) THEN Out(CtxPanic(c), <<>>)
    ELSE assign_res(VarReg(c, name), compile_expr(c, expr))

stmt_step(acc, out) == Out(out.c, acc.code \o out.code)
compile_from(acc, stmts, i) ==
    IF i > Len(stmts) THEN acc
    ELSE compile_from(stmt_step(acc, compile_stmt(acc.c, stmts[i])),
                      stmts, i + 1)

compile(c, stmts) == compile_from(Out(c, <<>>), stmts, 1)

\* mutation: the Jump in front of the true block is one short
if_res_short(cond_code, t, f) ==
    Out(f.c, cond_code \o <<Jump(Len(t.code) + 1)>> \o t.code
                \o <<Jump(Len(f.code) + 1)>> \o f.code)

if_res(cond_code, t, f) ==
    Out(f.c, cond_code \o <<Jump(Len(t.code) + 2)>> \o t.code
                \o <<Jump(Len(f.code) + 1)>> \o f.code)
if_false(cond_code, t, false_block) ==
    if_res(cond_code, t, compile(t.c, false_block))
if_blocks(r, true_block, false_block) ==
    if_false(Append(r.code, CondJump(r.reg, 2, 1)),
             compile(pop_tmp(r.c, r.reg), true_block), false_block)
compile_if(c, cond, true_block, false_block) ==
    if_blocks(compile_expr(c, cond), true_block, false_block)

compile_stmt(c, stmt) ==
    IF c.state # "ok" THEN Out(c, <<>>)
    ELSE CASE stmt.s = "Declare" -> compile_declare(c, stmt.name)
           [] stmt.s = "RawExpr" -> compile_raw(c, stmt.expr)
           [] stmt.s = "Assign" -> compile_assign(c, stmt.name, stmt.expr)
           [] stmt.s = "If" ->
                 compile_if(c, stmt.cond, stmt.true_block, stmt.false_block)
           [] OTHER -> Out(CtxPanic(c), <<>>)

\* how many statements one function body has at most
MaxStmts == 3

Compiling == ctx.state = "ok" /\ Len(ctx.done) < MaxStmts

\* one iteration of the loop of compile
CompileStep(stmt) ==
    /\ Compiling
    /\ LET out == compile_stmt([ctx EXCEPT !.log = <<>>], stmt) IN
         /\ ctx' = [out.c EXCEPT !.done = Append(@, stmt)]
         /\ emitted' = IF out.c.state = "ok" THEN emitted \o out.code
                       ELSE emitted
    /\ UNCHANGED <<text, row, defns, parsed, back>>

name0 == 0
name1 == name0 + 1
Names == {name0, name1}

\* the expressions of ast/tests.rs and some around them
mktup_expr ==
    Mktup(<<Lit(I(42)), Lit(B(TRUE)), Binop("Add", Lit(I(6)), Lit(I(7)))>>)

Exprs ==
    {Lit(I(42)), Lit(NaN), Var(name0), Var(name1),
     Binop("Add", Var(name0), Lit(I(69))),
     Binop("Sub", Lit(I(42)), Binop("Mul", Var(name0), Lit(I(42)))),
     Unop("Not", Var(name0)), Unop("Negate", Lit(I(42))),
     Index(Var(name0), Lit(I(1))),
     Mktup(<<>>), Mktup(<<Var(name0), Lit(I(42))>>), mktup_expr,
     Mktup(<<Var(name0), Var(name0), Var(name0)>>),
     CallExpr(Var(name0), <<>>)}

AssignStmts ==
    {Assign(name0, Lit(I(69))),
     Assign(name0, Binop("Add", Var(name0), Lit(I(69)))),
     Assign(name1, Var(name0)),
     Assign(name0, Mktup(<<>>)),
     Assign(name0, mktup_expr)}

IfStmts ==
    {If(Binop("Eq", Var(name0), Lit(I(69))),
        <<RawExpr(Lit(I(42)))>>, <<RawExpr(Lit(I(13)))>>),
     If(Var(name0), <<Declare(name1)>>, <<>>),
     If(Var(name0), <<RawExpr(Lit(I(42)))>>, <<>>),
     If(Lit(B(TRUE)), <<>>, <<Assign(name0, Lit(I(42)))>>)}

CompileDeclare == \E name \in Names : CompileStep(Declare(name))

CompileRawExpr == \E expr \in Exprs : CompileStep(RawExpr(expr))

CompileAssign == \E stmt \in AssignStmts : CompileStep(stmt)

CompileIf == \E stmt \in IfStmts : CompileStep(stmt)

\* While, Continue, Break, Return and Defn are unimplemented!()
CompileUnimplemented ==
    \E stmt \in {While(Lit(B(TRUE)), <<>>), ReturnStmt(Lit(I(42)))} :
       CompileStep(stmt)

CompileInit ==
    /\ ctx = FunctionCtx
    /\ emitted = <<>>
    /\ text = ""
    /\ row = 0
    /\ defns = <<>>
    /\ parsed = [state |-> "idle"]
    /\ prog = Program(<<>>)
    /\ build \in Builds
    /\ input = <<>>
    /\ sink = VecSink
    /\ hist = [given |-> input, reads |-> <<>>, writes |-> <<>>]
    /\ output = <<>>
    /\ stack = <<>>
    /\ code = 0
    /\ locals = <<>>
    /\ iptr = 0
    /\ status = "idle"
    /\ result = NoVal

CompileNext ==
    \/ CompileDeclare
    \/ CompileRawExpr
    \/ CompileAssign
    \/ CompileIf
    \/ CompileUnimplemented

CompileSpec == CompileInit /\ [][CompileNext]_vars

-----------------------------------------------------------------------------
(* The loop of eval on programs that jump *)

\* a function that calls itself: x0 := x0(x0), with Defn 0 as the callee
recursive == Program(<<Defn(<<>>, <<Call(0, 0, 0)>>, 1)>>)

LoopPrograms == JumpProbes \cup CondJumpProbes \cup {recursive}

LoopInit ==
    /\ prog \in LoopPrograms
    /\ input = <<>>
    /\ sink = VecSink
    /\ build \in Builds
    /\ hist = [given |-> input, reads |-> <<>>, writes |-> <<>>]
    /\ output = <<>>
    /\ stack = <<>>
    /\ code = 0
    /\ locals = <<>>
    /\ iptr = 0
    /\ status = "init"
    /\ result = NoVal
    /\ FrontIdle

LoopNext ==
    \/ EvalStart
    \/ ExecConst
    \/ ExecCall
    \/ ExecReturn
    \/ ExecJump
    \/ ExecCondJump

\* the loop has no way to pause: while eval has not returned, its next step
\* is taken
LoopSpec == LoopInit /\ [][LoopNext]_vars /\ WF_vars(LoopNext)

-----------------------------------------------------------------------------
(* Properties of Program::eval *)

\* the saved frame a Return pops
Top == stack[Len(stack)]

\* a Return of res ends eval when the call stack is empty, and otherwise
\* resumes the saved frame after its Call with res in the dest register
ReturnsValue(res) ==
    IF stack = <<>>
    THEN /\ status' = "ok"
         /\ result' = res
    ELSE /\ status' = "running"
         /\ stack' = SubSeq(stack, 1, Len(stack) - 1)
         /\ code' = Top.code
         /\ locals' = [Top.locals EXCEPT ![Top.addr + 1] = res]
         /\ iptr' = Top.iptr + 1

\* the dest register recorded by the pending Call exists in the caller frame
DestInRange == stack = <<>> \/ Top.addr < Len(Top.locals)

\* C1: eval ends with a value or an EvalError for every Program; no step
\* performs an out-of-bounds access or aborts the process.
C1_EvalNeverAborts == status # "panic"

\* C2: Call(dest, callee, arg) enters the Defn indexed by the FunctionRef held
\* in register callee; a callee register of any other kind is an EvalError.
C2_CallEntersReferencedDefn ==
    [][(Executing("Call") /\ InRange(Fetch.b) /\ status' # "panic") =>
          IF Reg(Fetch.b).k = "C"
          THEN code' = Reg(Fetch.b).v /\ iptr' = 0
          ELSE status' = "err"]_vars

\* C3: right after Call(dest, callee, arg) the active frame has iptr 0,
\* register 0 equal to the caller's register arg and every other register
\* equal to I(0), and the call stack has grown by one entry recording dest,
\* the caller's Defn, the caller's locals and the index of the Call.
C3_CallPushesFrame ==
    [][(Executing("Call") /\ status' = "running") =>
          /\ iptr' = 0
          /\ Len(locals') = prog.defns[code' + 1].local_count
          /\ locals'[1] = Reg(Fetch.c)
          /\ \A j \in 2..Len(locals') : locals'[j] = I(0)
          /\ Len(stack') = Len(stack) + 1
          /\ SubSeq(stack', 1, Len(stack)) = stack
          /\ stack'[Len(stack')].addr = Fetch.a
          /\ stack'[Len(stack')].code = code
          /\ stack'[Len(stack')].locals = locals
          /\ stack'[Len(stack')].iptr = iptr]_vars

\* a callee frame is running with a non-zero argument in register 0 and a
\* zeroed second register
C3_Witness ==
    /\ status = "running"
    /\ Len(stack) = 1
    /\ iptr = 0
    /\ Len(locals) >= 2
    /\ locals[1] = I(7)
    /\ locals[2] = I(0)
    /\ Top.locals[1] = I(7)

\* C4: Return pops the top saved frame, writes the returned value (the named
\* register, or the empty tuple) into the caller's dest register and continues
\* at the index of the originating Call + 1; with an empty call stack eval
\* ends successfully with that value.
C4_Return ==
    [][(/\ Executing("Return")
        /\ iptr < Len(CurDefn.code)
        /\ (Fetch.a = None \/ InRange(Fetch.a))
        /\ DestInRange) =>
          ReturnsValue(IF Fetch.a = None THEN T(<<>>) ELSE Reg(Fetch.a))]_vars

\* call_return ran to the end: f1 returned 111 into x0 of f0, f0 resumed
\* after its Call and returned it
C4_Witness ==
    /\ prog = call_return
    /\ status = "ok"
    /\ result = I(111)
    /\ stack = <<>>
    /\ code = 0
    /\ iptr = 5

\* C5: with iptr at or past the end of the active Defn's code the step is a
\* Return with no register: the empty tuple goes to the caller's dest
\* register, or is the result of eval when the call stack is empty.
C5_ImplicitReturn ==
    [][(Running /\ iptr >= Len(CurDefn.code) /\ DestInRange) =>
          ReturnsValue(T(<<>>))]_vars

\* a callee whose code jumped past its end has returned the empty tuple
\* into the caller's dest register
C5_Witness ==
    /\ status = "running"
    /\ stack = <<>>
    /\ code = 0
    /\ iptr = 3
    /\ Len(prog.defns) = 3
    /\ prog.defns[2].code = <<Jump(2)>>
    /\ \E r \in 1..Len(locals) : locals[r] = T(<<>>)

\* C6: a Jump(k) at index i with i + k >= 0 continues at index i + k exactly,
\* with locals and call stack unchanged.
C6_JumpExact ==
    [][(Executing("Jump") /\ iptr + Fetch.a >= 0) =>
          /\ iptr' = iptr + Fetch.a
          /\ status' = "running"
          /\ code' = code
          /\ locals' = locals
          /\ stack' = stack]_vars

\* test_backwards_jump took jumps 0 -> 3, 4 -> 1 and 2 -> 5 and returned k0
C6_Witness ==
    /\ prog = test_backwards_jump
    /\ status = "ok"
    /\ result = I(3)
    /\ iptr = 5

\* C7 as stated: after Jump(1) at index i the instruction at i + 1 is not
\* executed and execution continues at i + 2.
C7_JumpOneSkips ==
    [][(Executing("Jump") /\ Fetch.a = 1) => iptr' = iptr + 2]_vars

\* C7 amended: after Jump(1) at index i execution continues at index i + 1;
\* the instruction after the Jump is the next one executed, none is skipped.
C7_JumpOneFallsThrough ==
    [][(Executing("Jump") /\ Fetch.a = 1) =>
          /\ iptr' = iptr + 1
          /\ status' = "running"
          /\ code' = code]_vars

\* test_jump: after jump 1 at index 0, x0 := k0 at index 1 has executed
C7_Witness ==
    /\ prog = test_jump
    /\ status = "running"
    /\ iptr = 2
    /\ locals[1] = I(3)

\* C8: CondJump(cond, t, f) at index i continues at i + t when cond holds
\* true, at i + f when it holds false, and for any other value eval returns
\* an EvalError and no further instruction is executed.
C8_CondJump ==
    [][/\ (Executing("CondJump") /\ InRange(Fetch.a)) =>
            IF Reg(Fetch.a).k = "B"
            THEN LET off == IF Reg(Fetch.a).v THEN Fetch.b ELSE Fetch.c IN
                 iptr + off >= 0 =>
                    /\ iptr' = iptr + off
                    /\ status' = "running"
                    /\ code' = code
                    /\ locals' = locals
                    /\ stack' = stack
            ELSE /\ status' = "err"
                 /\ UNCHANGED <<iptr, code, locals, stack, input, output, result>>
       /\ status # "err"]_vars

\* a false condition with distinct offsets took the false offset, backwards
C8_Witness ==
    /\ status = "running"
    /\ iptr = 0
    /\ Len(locals) = 2
    /\ locals[1] = B(FALSE)
    /\ Len(CurDefn.code) = 4
    /\ CurDefn.code[2] = CondJump(0, 2, 0 - 1)

\* the exact result of an integer Add / Sub / Mul
Exact(op, b, c) ==
    IF op = "Add" THEN b + c ELSE IF op = "Sub" THEN b - c ELSE b * c

\* C9: Add, Sub and Mul on two integers store the exact mathematical result
\* when it fits the signed integer width and are an EvalError when it does
\* not; no result is produced by wraparound.
C9_CheckedArith ==
    [][(/\ Running
        /\ Fetch.op \in {"Add", "Sub", "Mul"}
        /\ InRange(Fetch.a) /\ InRange(Fetch.b) /\ InRange(Fetch.c)
        /\ Reg(Fetch.b).k = "I" /\ Reg(Fetch.c).k = "I") =>
          LET r == Exact(Fetch.op, Reg(Fetch.b).v, Reg(Fetch.c).v) IN
          IF 0 - Pow2(IntBits - 1) <= r /\ r < Pow2(IntBits - 1)
          THEN /\ status' = "running"
               /\ locals' = [locals EXCEPT ![Fetch.a + 1] = I(r)]
               /\ iptr' = iptr + 1
          ELSE /\ status' = "err"
               /\ locals' = locals]_vars

\* Add of the maximum integer and 1 ended eval with an EvalError
C9_Witness ==
    /\ prog = ValueProbe("Add", I(I64_MAX), I(1))
    /\ status = "err"
    /\ iptr = 2

\* C10: Div and Rem on two integers are an EvalError when the right operand
\* is zero or the operands are the minimum integer and -1; otherwise dest
\* receives the quotient truncated toward zero / the remainder of that
\* division.
C10_DivRem ==
    [][(/\ Running
        /\ Fetch.op \in {"Div", "Rem"}
        /\ InRange(Fetch.a) /\ InRange(Fetch.b) /\ InRange(Fetch.c)
        /\ Reg(Fetch.b).k = "I" /\ Reg(Fetch.c).k = "I") =>
          LET b == Reg(Fetch.b).v
              c == Reg(Fetch.c).v
          IN
          IF c = 0 \/ (b = I64_MIN /\ c = 0 - 1)
          THEN status' = "err" /\ locals' = locals
          ELSE /\ status' = "running"
               /\ iptr' = iptr + 1
               /\ \E q \in (0 - Abs(b))..Abs(b) :
                     LET r == b - c * q IN
                     /\ Abs(r) < Abs(c)
                     /\ r = 0 \/ Sign(r) = Sign(b)
                     /\ locals' = [locals EXCEPT ![Fetch.a + 1] =
                                      I(IF Fetch.op = "Div" THEN q ELSE r)]]_vars

\* -7 / 2 stored -3
C10_Witness ==
    /\ prog = ValueProbe("Div", I(0 - 7), I(2))
    /\ status = "running"
    /\ iptr = 3
    /\ locals[3] = I(0 - 3)

\* the three operand registers of the fetched instruction exist
OperandsInRange == InRange(Fetch.a) /\ InRange(Fetch.b) /\ InRange(Fetch.c)

\* C11: Lt, Gt, Leq and Geq store a boolean only when both operands are
\* integers, both floats or both booleans; every other pairing of kinds is an
\* EvalError.
C11_OrderingNeedsSameKind ==
    [][(/\ Running
        /\ Fetch.op \in {"Lt", "Gt", "Leq", "Geq"}
        /\ OperandsInRange) =>
          IF /\ Reg(Fetch.b).k = Reg(Fetch.c).k
             /\ Reg(Fetch.b).k \in {"I", "F", "B"}
          THEN status' = "running" /\ locals'[Fetch.a + 1].k = "B"
          ELSE status' = "err"]_vars

\* a float NaN occurs in x, at any depth
RECURSIVE HasNaN(_)
HasNaN(x) ==
    IF x.k = "F" THEN x.v[1] = 0 /\ x.v[2] = 0
    ELSE IF x.k = "T" THEN \E j \in 1..Len(x.v) : HasNaN(x.v[j])
    ELSE FALSE

C13_LogicalAndBitwise ==
    [][(Running /\ Fetch.op \in {"And", "Orr", "Xor"} /\ OperandsInRange) =>
          LET x == Reg(Fetch.b)
              y == Reg(Fetch.c)
          IN
          IF x.k = "B" /\ y.k = "B"
          THEN /\ status' = "running"
               /\ locals' = [locals EXCEPT ![Fetch.a + 1] =
                                B(IF Fetch.op = "And" THEN x.v /\ y.v
                                  ELSE IF Fetch.op = "Orr" THEN x.v \/ y.v
                                  ELSE x.v # y.v)]
          ELSE IF x.k = "I" /\ y.k = "I"
          THEN /\ status' = "running"
               /\ locals' = [locals EXCEPT ![Fetch.a + 1] =
                                I(IF Fetch.op = "And" THEN IntAnd(x.v, y.v)
                                  ELSE IF Fetch.op = "Orr" THEN IntOr(x.v, y.v)
                                  ELSE IntXor(x.v, y.v))]
          ELSE status' = "err"]_vars

\* C14: MkTup(dest, start, 0) stores the empty tuple in dest for every start
\* in 0..255, also for start greater than the frame's local_count, and eval
\* does not fail because of start.
C14_EmptyTupleAnyStart ==
    [][(Executing("MkTup") /\ Fetch.c = 0 /\ InRange(Fetch.a)) =>
          /\ status' = "running"
          /\ locals' = [locals EXCEPT ![Fetch.a + 1] = T(<<>>)]]_vars

\* C15: IdxTup(dest, tuple, index) stores element i of the tuple when the
\* subject is a tuple and the index an integer i with 0 <= i < length; in
\* every other case eval returns an EvalError.
C15_IdxTupChecked ==
    [][(Executing("IdxTup") /\ OperandsInRange) =>
          LET t == Reg(Fetch.b)
              i == Reg(Fetch.c)
          IN
          IF t.k = "T" /\ i.k = "I" /\ 0 <= i.v /\ i.v < Len(t.v)
          THEN /\ status' = "running"
               /\ locals' = [locals EXCEPT ![Fetch.a + 1] = t.v[i.v + 1]]
          ELSE status' = "err"]_vars

\* the output stream reports an I/O error on the next write
SinkFails == Len(output) >= sink.cap /\ sink.full = "err"

\* C16: every executed Read(dest) consumes exactly one byte of the input
\* stream, in stream order, and stores it in dest as an integer in 0..255;
\* when the stream is exhausted or reports an I/O error eval returns an
\* EvalError and stores nothing.
C16_ReadOneByteOrFail ==
    [][(Executing("Read") /\ InRange(Fetch.a)) =>
          IF input # <<>> /\ Head(input) # IoError
          THEN /\ Head(input) \in 0..255
               /\ input' = Tail(input)
               /\ locals' = [locals EXCEPT ![Fetch.a + 1] = I(Head(input))]
               /\ status' = "running"
          ELSE /\ status' = "err"
               /\ locals' = locals]_vars

\* C17: Write(src) appends exactly one byte to the output stream, the
\* integer in src modulo 256; when src holds a non-integer or the stream
\* reports an I/O error eval returns an EvalError and appends nothing.
C17_WriteLowByteOrFail ==
    [][(Executing("Write") /\ InRange(Fetch.a)) =>
          IF Reg(Fetch.a).k = "I" /\ ~SinkFails
          THEN /\ output' = Append(output, Reg(Fetch.a).v % 256)
               /\ status' = "running"
          ELSE /\ status' = "err"
               /\ output' = output]_vars

Ended == status \in {"ok", "err", "panic"}

\* C18: at every point of an evaluation the output stream holds exactly the
\* low bytes of the Writes executed so far, in execution order, and the k-th
\* executed Read received the k-th input byte; the program io on input
\* [13, 2] ends with output [4, 13] and the empty tuple as result.
C18_StreamsFollowExecution ==
    /\ output = hist.writes
    /\ Len(hist.reads) <= Len(hist.given)
    /\ \A k \in 1..Len(hist.reads) : hist.reads[k] = hist.given[k]
    /\ (prog = io /\ hist.given = <<13, 2>> /\ sink = VecSink /\ Ended) =>
           /\ status = "ok"
           /\ output = <<4, 13>>
           /\ result = T(<<>>)

\* C19: once an instruction raises an EvalError eval stops there: no later
\* instruction is executed, no further byte is read or written, no value is
\* returned, and the bytes written earlier stay in the output stream.
C19_ErrorIsFinal ==
    [][/\ status # "err"
       /\ status' = "err" =>
             /\ output' = output
             /\ input' = input
             /\ hist' = hist
             /\ result' = NoVal
             /\ UNCHANGED <<stack, code, locals, iptr>>]_vars

\* a run that failed after it had written a byte
C19_Witness == status = "err" /\ output # <<>>

-----------------------------------------------------------------------------
(* Properties of bytecode::parse::parse *)

ParseEnded == parsed.state \in {"ok", "err"}

\* C21: for every Program P, parsing the text P's Display renders succeeds
\* and yields a Program equal to P.
C21_RoundTrip ==
    ParseEnded =>
       \A p \in RoundTripPrograms :
          text = ProgramText(p) =>
             parsed.state = "ok" /\ parsed.program = p

\* C22: the call/return text of the tests parses, and eval of the parsed
\* Program returns the integer 111.
C22_CallReturnText ==
    (text = call_return_text /\ (parsed.state = "err" \/ Ended)) =>
       /\ parsed.state = "ok"
       /\ status = "ok"
       /\ result = I(111)

\* the N of a header line "defn fN ...", None when there is no number
HeaderNumber(buf) ==
    LET p == p_parse_til(p_token(p_space(p_token(Start(buf), "defn")), "f"),
                         "whitespace", "usize")
    IN IF p.ok THEN p.vals[1] ELSE None

AtHeader == MoreLines /\ ~IsSkipped(CurLine) /\ IsHeader(CurLine)

\* C23: a header "defn fN ..." is accepted only when N is the number of
\* headers parsed so far; with any other N parse returns a ParseError and no
\* Program.
C23_HeadersNumberedInOrder ==
    [][AtHeader =>
          /\ defns' # defns => HeaderNumber(CurLine) = Len(defns)
          /\ HeaderNumber(CurLine) # Len(defns) =>
                /\ parsed'.state = "err"
                /\ defns' = defns]_vars

\* the second header of a text was rejected for repeating the number 0
C23_Witness ==
    /\ parsed.state = "err"
    /\ Len(defns) = 1
    /\ row < Len(lines(text))
    /\ IsHeader(CurLine)
    /\ HeaderNumber(CurLine) = 0

\* C24: a line of any instruction form of the assembly grammar, inside a
\* function, appends the corresponding instruction to the current Defn.
C24_EveryFormParses ==
    [][(MoreLines /\ defns # <<>>) =>
          \A ins \in InstrKinds :
             CurLine.text = InstrText(ins) => defns' = push_code(defns, ins)
      ]_vars

\* lines that are not valid: a malformed header, a malformed instruction,
\* leftover text after a complete instruction
InvalidLines ==
    {"defnf0 1 :", "defn f1 2 : oops", "x1 := x0 junk", "return x0 x1"}

\* C25: parse stops at the first line that is not valid and returns a
\* ParseError whose row is the 1-based number of that line, blank and
\* comment lines counted; no later line is examined, no Program returned.
C25_ErrorAtFirstInvalidLine ==
    [][/\ parsed.state # "err"
       /\ parsed'.state = "err" =>
             /\ parsed'.err.row = row + 1
             /\ row' = row
             /\ defns' = defns
             /\ status' = "idle"
       /\ (/\ MoreLines
           /\ ~IsSkipped(CurLine)
           /\ \/ CurLine.text \in InvalidLines
              \/ ~IsHeader(CurLine) /\ defns = <<>>) =>
             parsed'.state = "err"]_vars

\* an instruction before any header, on line 3 after a blank and a comment
C25_Witness ==
    /\ parsed.state = "err"
    /\ parsed.err.row = 3
    /\ Len(lines(text)) = 3
    /\ lines(text)[1] = ""
    /\ lines(text)[2] = "# defn f0"
    /\ defns = <<>>

-----------------------------------------------------------------------------
(* Properties of ast::FunctionCtx *)

\* C26: no push_tmp hands out a register bound to a declared variable, and
\* a pop_tmp of a declared variable's register leaves free_reg unchanged,
\* also after the same name is declared again.
C26_DeclaredRegistersReserved ==
    ctx.state # "idle" =>
       \A i \in DOMAIN ctx.log :
          /\ ctx.log[i].ev = "push" => ctx.log[i].reg \notin ctx.log[i].bound
          /\ (ctx.log[i].ev = "pop" /\ ctx.log[i].reg \in ctx.log[i].bound) =>
                ctx.log[i].after = ctx.log[i].before

\* the register addresses that appear in an instruction
RegsOf(ins) ==
    CASE ins.op = "Jump" -> {}
      [] ins.op \in {"Const", "CondJump"} -> {ins.a}
      [] ins.op \in {"Copy", "Neg", "Not", "MkTup"} -> {ins.a, ins.b}
      [] OTHER -> {ins.a, ins.b, ins.c}

RegsIn(instrs) == UNION {RegsOf(instrs[i]) : i \in DOMAIN instrs}

Highest(S) == CHOOSE x \in S : \A y \in S : y <= x

\* C27 as stated: after compile, max_reg equals the highest register
\* address appearing in the emitted instructions.
C27_MaxRegIsHighest ==
    (ctx.state = "ok" /\ RegsIn(emitted) # {}) =>
       ctx.max_reg = Highest(RegsIn(emitted))

PushedRegs(log) == {log[i].reg : i \in {j \in DOMAIN log : log[j].ev = "push"}}

\* C27: max_reg is a count of registers; it is greater than every register
\* address appearing in the emitted instructions, and one more than the
\* highest register the allocator has handed out.
C27_MaxRegIsCount ==
    [][ctx'.state = "ok" =>
          /\ \A r \in RegsIn(emitted') : r < ctx'.max_reg
          /\ ctx'.max_reg =
                Highest({ctx.max_reg}
                           \cup {r + 1 : r \in PushedRegs(ctx'.log)})]_vars

\* test_compile_binop: the highest register is 2 and max_reg is 3
C27_Witness ==
    /\ ctx.state = "ok"
    /\ ctx.done = <<Declare(name0),
                    Assign(name0, Binop("Add", Var(name0), Lit(I(69))))>>
    /\ Highest(RegsIn(emitted)) = 2
    /\ ctx.max_reg = 3

RECURSIVE HasDeclare(_)
HasDeclare(stmts) ==
    \E i \in DOMAIN stmts :
       \/ stmts[i].s = "Declare"
       \/ /\ stmts[i].s = "If"
          /\ HasDeclare(stmts[i].true_block \o stmts[i].false_block)

LastStmt(c) == c.done[Len(c.done)]

\* C28: compile_stmt of a statement that declares no variable leaves
\* free_reg as it was.
C28_CursorRestored ==
    [][(ctx'.state = "ok" /\ ~HasDeclare(<<LastStmt(ctx')>>)) =>
          ctx'.free_reg = ctx.free_reg]_vars

\* structural equality of two scalar values
SameVal(x, y) == x.k = y.k /\ x.v = y.v

NoDuplicates(consts) ==
    \A i, j \in DOMAIN consts : SameVal(consts[i], consts[j]) => i = j

IsRawLit(stmt, val) ==
    /\ stmt.s = "RawExpr"
    /\ stmt.expr.e = "Lit"
    /\ SameVal(stmt.expr.val, val)

\* C29: the constant pool never holds two structurally equal values; a
\* literal equal to a pooled one emits Const with the existing index and
\* leaves the pool unchanged; a constant's index never changes.
C29_PoolDeduplicated ==
    [][ctx'.state = "ok" =>
          /\ NoDuplicates(ctx'.consts)
          /\ SubSeq(ctx'.consts, 1, Len(ctx.consts)) = ctx.consts
          /\ \A i \in DOMAIN ctx.consts :
                IsRawLit(LastStmt(ctx'), ctx.consts[i]) =>
                   /\ ctx'.consts = ctx.consts
                   /\ emitted' = Append(emitted, Const(ctx.free_reg, i - 1))
      ]_vars

-----------------------------------------------------------------------------
(* The only exit of the loop of eval *)

\* C30: eval returns a success value only from a step that executes Return
\* (explicit or implicit) while the call stack is empty.
C30_SuccessOnlyByOutermostReturn ==
    [][(status # "ok" /\ status' = "ok") =>
          /\ Executing("Return")
          /\ stack = <<>>
          /\ stack' = <<>>
          /\ result' = IF Fetch.a # None THEN Reg(Fetch.a) ELSE T(<<>>)]_vars

\* call_return has ended with 111: f1's Return popped a frame and did not
\* end the evaluation, f0's did
C30_Witness ==
    /\ prog = call_return
    /\ status = "ok"
    /\ stack = <<>>
    /\ code = 0
    /\ Fetch.op = "Return"
    /\ result = I(111)

-----------------------------------------------------------------------------
(* Frames, float arithmetic, termination and the instruction pointer *)

\* C31: no step changes a saved caller frame that stays on the stack, the
\* frame a Call saves holds the caller's locals, and after the callee's
\* Return the caller's locals equal the saved ones except in dest.
C31_FramesDoNotAlias ==
    [][/\ \A i \in 1..Len(stack) : i <= Len(stack') => stack'[i] = stack[i]
       /\ (Executing("Call") /\ status' = "running") =>
             stack'[Len(stack')].locals = locals
       /\ (Executing("Return") /\ stack # <<>> /\ status' = "running") =>
             /\ Len(locals') = Len(Top.locals)
             /\ \A r \in 1..Len(locals') :
                   r # Top.addr + 1 => locals'[r] = Top.locals[r]]_vars

\* f0 of call_return has resumed after f1 ran three stores: x1 still holds
\* the function it held at the Call, x0 the returned 111
C31_Witness ==
    /\ prog = call_return
    /\ status = "running"
    /\ stack = <<>>
    /\ code = 0
    /\ iptr = 5
    /\ locals = <<I(111), C(1)>>

\* the IEEE-754 remainder of x by y (the % of f64): x - y * trunc(x / y)
FRem(x, y) ==
    IF IsNaN(x) \/ IsNaN(y) \/ IsInf(x) \/ y.v = <<0, 1>> THEN NaN
    ELSE IF IsInf(y) THEN x
    ELSE FNorm(x.v[1] * y.v[2]
                  - TruncDiv(x.v[1] * y.v[2], x.v[2] * y.v[1])
                       * y.v[1] * x.v[2],
               x.v[2] * y.v[2])

FloatOps == {"Add", "Sub", "Mul", "Div", "Rem"}

FloatResult(op, x, y) ==
    CASE op = "Add" -> FAdd(x, y)
      [] op = "Sub" -> FSub(x, y)
      [] op = "Mul" -> FMul(x, y)
      [] op = "Div" -> FDiv(x, y)
      [] op = "Rem" -> FRem(x, y)

\* C35: Add, Sub, Mul, Div and Rem on two floats never fail and store the
\* result of their own operation; Rem stores the remainder of left by right.
C35_FloatArithmetic ==
    [][(/\ Running
        /\ Fetch.op \in FloatOps
        /\ OperandsInRange
        /\ Reg(Fetch.b).k = "F"
        /\ Reg(Fetch.c).k = "F") =>
          /\ status' = "running"
          /\ locals' = [locals EXCEPT ![Fetch.a + 1] =
                           FloatResult(Fetch.op, Reg(Fetch.b), Reg(Fetch.c))]
      ]_vars

\* a Jump, or a CondJump on a boolean, is about to move the instruction
\* pointer by JumpOffset
TakesJump ==
    \/ Executing("Jump")
    \/ Executing("CondJump") /\ InRange(Fetch.a) /\ Reg(Fetch.a).k = "B"

JumpOffset ==
    IF Fetch.op = "Jump" THEN Fetch.a
    ELSE IF Reg(Fetch.a).v THEN Fetch.b
    ELSE Fetch.c

\* C37: a Jump or CondJump at index i with offset k, i + k < 0, neither
\* moves execution to another index nor crashes: it ends the evaluation
\* with an EvalError.
C37_NoWraparound ==
    [][(TakesJump /\ iptr + JumpOffset < 0) =>
          /\ status' = "err"
          /\ iptr' = iptr]_vars

\* every Jump and CondJump offset of the Program is strictly positive
AllPositive(p) ==
    \A d \in DOMAIN p.defns :
       \A j \in DOMAIN p.defns[d].code :
          LET ins == p.defns[d].code[j] IN
          /\ ins.op = "Jump" => ins.a > 0
          /\ ins.op = "CondJump" => ins.b > 0 /\ ins.c > 0

\* following instrs from index i, through its Jumps, leaves the code within
\* fuel steps (a negative index leaves it too)
RECURSIVE Escapes(_, _, _)
Escapes(instrs, i, fuel) ==
    IF i < 0 \/ i >= Len(instrs) THEN TRUE
    ELSE IF fuel = 0 THEN FALSE
    ELSE IF instrs[i + 1].op = "Jump"
         THEN Escapes(instrs, i + instrs[i + 1].a, fuel - 1)
    ELSE Escapes(instrs, i + 1, fuel - 1)

\* programs of constant loads and Jumps whose path from index 0 is a cycle
JumpLoops ==
    {p \in JumpProbes :
        ~Escapes(p.defns[1].code, 0, Len(p.defns[1].code))}

\* C36: with every Jump and CondJump offset strictly positive eval
\* terminates unless a Call is executed; a Program whose path is a Jump with
\* offset 0 or a backward Jump cycle never terminates.
C36_Termination ==
    /\ (status = "init" /\ AllPositive(prog)) ~> (Ended \/ Executing("Call"))
    /\ [](prog \in JumpLoops => ~Ended)

\* x0 := k0; jump -1 has gone round its cycle once
C36_Witness ==
    /\ prog = Program(<<Defn(<<I(5)>>, JumpCode(1, 0 - 1), 1)>>)
    /\ prog \in JumpLoops
    /\ status = "running"
    /\ iptr = 0
    /\ locals = <<I(5)>>

-----------------------------------------------------------------------------
(* Properties of the code FunctionCtx emits *)

\* the expressions a statement compiles in the FunctionCtx it starts from
TopExprs(stmt) ==
    IF stmt.s \in {"RawExpr", "Assign"} THEN {stmt.expr}
    ELSE IF stmt.s = "If" THEN {stmt.cond}
    ELSE {}

\* the FunctionCtx a statement is compiled from
Fresh(c) == [c EXCEPT !.log = <<>>]

DestVsTemps(dir, dest, temps) ==
    \A t \in temps : IF dir = "above" THEN dest > t ELSE dest < t

RECURSIVE OperandOrder(_, _, _)
RECURSIVE PartsOrder(_, _, _, _)

\* every Binop and Index inside e, compiled from c: the destination is the
\* register handed out first, it lies above / below every temporary handed
\* out for the operands, and the last two releases are the right operand's
\* register, then the left operand's
OperandOrder(dir, c, e) ==
    IF e.e \in {"Binop", "Index"}
    THEN LET first == IF e.e = "Binop" THEN e.left ELSE e.tup
             second == IF e.e = "Binop" THEN e.right ELSE e.idx
             l == compile_expr(push_tmp(c), first)
             r == compile_expr(l.c, second)
             whole == compile_expr(c, e)
             n == Len(whole.c.log)
         IN whole.c.state = "ok" =>
               /\ whole.reg = c.free_reg
               /\ whole.code[Len(whole.code)].a = whole.reg
               /\ DestVsTemps(dir, whole.reg,
                              PushedRegs(SubSeq(r.c.log, Len(c.log) + 2,
                                                Len(r.c.log))))
               /\ SubSeq(whole.c.log, 1, n - 2) = r.c.log
               /\ whole.c.log[n - 1].ev = "pop"
               /\ whole.c.log[n - 1].reg = r.reg
               /\ whole.c.log[n].ev = "pop"
               /\ whole.c.log[n].reg = l.reg
               /\ OperandOrder(dir, push_tmp(c), first)
               /\ OperandOrder(dir, l.c, second)
    ELSE IF e.e = "Unop" THEN OperandOrder(dir, push_tmp(c), e.arg)
    ELSE IF e.e = "Mktup" THEN PartsOrder(dir, push_tmp(c), e.parts, 1)
    ELSE TRUE

PartsOrder(dir, c, parts, i) ==
    \/ i > Len(parts)
    \/ /\ OperandOrder(dir, c, parts[i])
       /\ PartsOrder(dir, compile_expr(c, parts[i]).c, parts, i + 1)

\* C32 as stated: the destination register of a Binop or Index is above
\* every temporary of its operands; the operand temporaries are released
\* right operand first, then left.
C32_DestAboveOperands ==
    [][ctx'.state = "ok" =>
          \A e \in TopExprs(LastStmt(ctx')) :
             OperandOrder("above", Fresh(ctx), e)]_vars

\* C32: the destination register of a Binop or Index is handed out before
\* the operands are compiled and is below every temporary of its operands;
\* the operand temporaries are released right operand first, then left.
C32_DestBelowOperands ==
    [][ctx'.state = "ok" =>
          \A e \in TopExprs(LastStmt(ctx')) :
             OperandOrder("below", Fresh(ctx), e)]_vars

\* test_compile_binop: x1 := x0 + x2 with the temporary x2 above the
\* destination x1; x2 is released, then x0, then x1
C32_Witness ==
    /\ ctx.state = "ok"
    /\ Len(ctx.done) = 2
    /\ emitted = <<Const(2, 0), Add(1, 0, 2), Copy(0, 1)>>
    /\ Len(ctx.log) = 5
    /\ ctx.log[3].ev = "pop" /\ ctx.log[3].reg = 2
    /\ ctx.log[4].ev = "pop" /\ ctx.log[4].reg = 0

\* the registers holding the results of the elements of a Mktup compiled
\* from c
PartAddrs(c, parts) ==
    compile_parts(Parts(push_tmp(c)), parts, 1).part_addrs

\* the instruction an expression's code ends in
LastInstr(r) == r.code[Len(r.code)]

MktupCovers(c, e) ==
    (e.e = "Mktup" /\ Len(e.parts) >= 1 /\ compile_expr(c, e).c.state = "ok")
       => /\ LastInstr(compile_expr(c, e)).op = "MkTup"
          /\ LastInstr(compile_expr(c, e)).c = Len(e.parts)
          /\ \A i \in 1..Len(e.parts) :
                PartAddrs(c, e.parts)[i] =
                   LastInstr(compile_expr(c, e)).b + (i - 1)

\* C33: the MkTup emitted for a Mktup of n >= 1 elements covers exactly the
\* elements' result registers: element i is in register start + i.
C33_MkTupCoversElements ==
    [][ctx'.state = "ok" =>
          \A e \in TopExprs(LastStmt(ctx')) : MktupCovers(Fresh(ctx), e)]_vars

-----------------------------------------------------------------------------
(* Compiled code in the engine: a function body is compiled, the emitted    *)
(* instructions become the code of Defn 0 with the pool of the FunctionCtx  *)
(* as its constants and max_reg as its local count, and eval runs it        *)

Blocks ==
    {<<>>, <<RawExpr(Lit(I(42)))>>,
     <<Assign(name0, Lit(I(13))), RawExpr(Lit(I(42)))>>}

Conds ==
    {Lit(B(TRUE)), Lit(B(FALSE)), Binop("Eq", Var(name0), Lit(I(69)))}

RunIfStmts == {If(c, t, f) : c \in Conds, t \in Blocks, f \in Blocks}

\* the body is still being written: nothing is loaded and no If closes it
Open ==
    /\ status = "idle"
    /\ IF ctx.done = <<>> THEN TRUE ELSE LastStmt(ctx).s # "If"

RunDeclare == Open /\ CompileStep(Declare(name0))

RunAssign == Open /\ CompileStep(Assign(name0, Lit(I(69))))

RunIf == Open /\ \E stmt \in RunIfStmts : CompileStep(stmt)

\* Defn { consts, code, local_count } from a body that ends in an If
LoadCompiled ==
    /\ status = "idle"
    /\ ctx.state = "ok"
    /\ ctx.done # <<>>
    /\ LastStmt(ctx).s = "If"
    /\ prog' = Program(<<Defn(ctx.consts, emitted, ctx.max_reg)>>)
    /\ status' = "init"
    /\ UNCHANGED <<front, build, hist, input, output, sink, stack, code,
                   locals, iptr, result>>

RunNext ==
    \/ RunDeclare
    \/ RunAssign
    \/ RunIf
    \/ LoadCompiled
    \/ EvalStart
    \/ ExecConst
    \/ ExecCopy
    \/ ExecEq
    \/ ExecJump
    \/ ExecCondJump
    \/ ExecReturn

RunSpec == CompileInit /\ [][RunNext]_vars

\* the body in front of the If, the If's condition and its two blocks, each
\* compiled on its own
Prefix == compile(FunctionCtx, SubSeq(ctx.done, 1, Len(ctx.done) - 1))
CondRes == compile_expr(Prefix.c, LastStmt(ctx).cond)
TrueOut == compile(pop_tmp(CondRes.c, CondRes.reg), LastStmt(ctx).true_block)
FalseOut == compile(TrueOut.c, LastStmt(ctx).false_block)

\* instruction indexes of the If: its first instruction, its CondJump, the
\* true block, the Jump behind the true block, the false block, and the
\* index immediately after its last instruction
IfStart == Len(Prefix.code)
CondJumpAt == IfStart + Len(CondRes.code)
TrueStart == CondJumpAt + 2
TrueEnd == TrueStart + Len(TrueOut.code)
FalseStart == TrueEnd + 1
IfEnd == FalseStart + Len(FalseOut.code)

Slice(from, to) == SubSeq(prog.defns[1].code, from + 1, to)

\* C34: the code emitted for an If executes the condition code, then exactly
\* the true block when the condition register holds true or exactly the
\* false block when it holds false, and then reaches the index immediately
\* after the If's last instruction, whatever the block lengths.
C34_IfRunsOneBlock ==
    [][(status = "running" /\ status' = "running") =>
          /\ IfEnd = Len(prog.defns[1].code)
          /\ Slice(IfStart, CondJumpAt) = CondRes.code
          /\ Slice(TrueStart, TrueEnd) = TrueOut.code
          /\ Slice(FalseStart, IfEnd) = FalseOut.code
          /\ (iptr >= IfStart /\ iptr < CondJumpAt) => iptr' = iptr + 1
          /\ (iptr = CondJumpAt /\ Reg(CondRes.reg) = B(TRUE)) =>
                iptr' = TrueStart
          /\ (iptr = CondJumpAt /\ Reg(CondRes.reg) = B(FALSE)) =>
                iptr' = CondJumpAt + 1
          /\ iptr = CondJumpAt + 1 => iptr' = FalseStart
          /\ (iptr >= TrueStart /\ iptr < TrueEnd) => iptr' = iptr + 1
          /\ iptr = TrueEnd => iptr' = IfEnd
          /\ (iptr >= FalseStart /\ iptr < IfEnd) => iptr' = iptr + 1
          /\ iptr < IfEnd]_vars

\* x := 69; if x == 69 { x := 13; 42 } else { 42 } has run its true block
\* and stands behind the If
C34_Witness ==
    /\ status = "running"
    /\ Len(ctx.done) = 3
    /\ LastStmt(ctx) = If(Binop("Eq", Var(name0), Lit(I(69))),
                          <<Assign(name0, Lit(I(13))), RawExpr(Lit(I(42)))>>,
                          <<RawExpr(Lit(I(42)))>>)
    /\ iptr = IfEnd
    /\ Reg(0) = I(13)

-----------------------------------------------------------------------------
(* The last-reserved-first-released assertion of pop_tmp *)

RECURSIVE ExprFine(_, _)
\* e is built from Lit, Var, Binop, Index and Mktup, and its variables are
\* among declared
ExprFine(declared, e) ==
    CASE e.e = "Lit" -> TRUE
      [] e.e = "Var" -> e.name \in declared
      [] e.e = "Binop" ->
            ExprFine(declared, e.left) /\ ExprFine(declared, e.right)
      [] e.e = "Index" ->
            ExprFine(declared, e.tup) /\ ExprFine(declared, e.idx)
      [] e.e = "Mktup" ->
            \A i \in DOMAIN e.parts : ExprFine(declared, e.parts[i])
      [] OTHER -> FALSE

Scanned(fine, declared) == [fine |-> fine, declared |-> declared]

RECURSIVE Scan(_, _, _)
RECURSIVE ScanStmt(_, _)
\* the names declared by stmt after those of acc, and whether the statements
\* so far are Declare, RawExpr, Assign and If, refer to names declared
\* earlier only, and declare no name twice
ScanStmt(acc, stmt) ==
    IF ~acc.fine THEN acc
    ELSE CASE stmt.s = "Declare" ->
                Scanned(stmt.name \notin acc.declared,
                        acc.declared \cup {stmt.name})
           [] stmt.s = "RawExpr" ->
                Scanned(ExprFine(acc.declared, stmt.expr), acc.declared)
           [] stmt.s = "Assign" ->
                Scanned(/\ stmt.name \in acc.declared
                        /\ ExprFine(acc.declared, stmt.expr), acc.declared)
           [] stmt.s = "If" ->
                IF ExprFine(acc.declared, stmt.cond)
                THEN Scan(Scan(acc, stmt.true_block, 1), stmt.false_block, 1)
                ELSE Scanned(FALSE, acc.declared)
           [] OTHER -> Scanned(FALSE, acc.declared)

Scan(acc, stmts, i) ==
    IF i > Len(stmts) THEN acc
    ELSE Scan(ScanStmt(acc, stmts[i]), stmts, i + 1)

WellFormed(stmts) == Scan(Scanned(TRUE, {}), stmts, 1).fine

\* C38: on statements built from Declare, RawExpr, Assign and If over Lit,
\* Var, Binop, Index and Mktup, with every variable declared before it is
\* referenced and no name declared twice, the assertion in pop_tmp never
\* fails: compilation goes on, and every release of a temporary finds
\* free_reg at that address + 1 and leaves it at that address.
C38_ReleaseInOrder ==
    [][WellFormed(ctx'.done) =>
          /\ ctx'.state = "ok"
          /\ \A i \in DOMAIN ctx'.log :
                (ctx'.log[i].ev = "pop"
                    /\ ctx'.log[i].reg \notin ctx'.log[i].bound)
                   => /\ ctx'.log[i].before = ctx'.log[i].reg + 1
                      /\ ctx'.log[i].after = ctx'.log[i].reg]_vars

\* let x; let y; 42 - (x * 42): two nested temporaries are released, each
\* from the top of the cursor, and the variable's register is left alone
C38_Witness ==
    /\ ctx.state = "ok"
    /\ WellFormed(ctx.done)
    /\ ctx.done = <<Declare(name0), Declare(name1),
                    RawExpr(Binop("Sub", Lit(I(42)),
                                  Binop("Mul", Var(name0), Lit(I(42)))))>>
    /\ \E i, j \in DOMAIN ctx.log :
          /\ i < j
          /\ ctx.log[i].ev = "pop" /\ ctx.log[i].reg = name0
          /\ ctx.log[i].before = ctx.log[i].after
          /\ ctx.log[j].ev = "pop" /\ ctx.log[j].before = ctx.log[j].reg + 1
          /\ ctx.log[j].reg \notin ctx.log[j].bound

-----------------------------------------------------------------------------
(* The emitted code in a frame of max_reg registers *)

\* the registers MkTup(dest, start, len) reads
TupRange(ins) == {ins.b + i : i \in 0..(ins.c - 1)}

\* C39: every register operand of every emitted instruction is below
\* max_reg, and so is the whole range start .. start + len - 1 of every
\* emitted MkTup.
C39_EmittedFitsFrame ==
    ctx.state = "ok" =>
       \A i \in DOMAIN emitted :
          /\ \A r \in RegsOf(emitted[i]) : r < ctx.max_reg
          /\ emitted[i].op = "MkTup" =>
                \A r \in TupRange(emitted[i]) : r < ctx.max_reg

-----------------------------------------------------------------------------
(* Registers written by the code of an expression *)

\* the register an instruction writes
WritesOf(ins) == IF ins.op \in {"Jump", "CondJump"} THEN {} ELSE {ins.a}

Writes(instrs) == UNION {WritesOf(instrs[i]) : i \in DOMAIN instrs}

\* the FunctionCtx element i of a Mktup is compiled from
PartCtx(c, parts, i) ==
    compile_parts(Parts(push_tmp(c)), SubSeq(parts, 1, i - 1), 1).c

RECURSIVE SiblingsKept(_, _)
\* inside e, compiled from c: the code of the right operand does not write
\* the left operand's register, the code of an index not the subject's, the
\* code of a Mktup element not an earlier element's
SiblingsKept(c, e) ==
    IF e.e \in {"Binop", "Index"}
    THEN LET first == IF e.e = "Binop" THEN e.left ELSE e.tup
             second == IF e.e = "Binop" THEN e.right ELSE e.idx
             l == compile_expr(push_tmp(c), first)
         IN /\ l.reg \notin Writes(compile_expr(l.c, second).code)
            /\ SiblingsKept(push_tmp(c), first)
            /\ SiblingsKept(l.c, second)
    ELSE IF e.e = "Unop" THEN SiblingsKept(push_tmp(c), e.arg)
    ELSE IF e.e = "Mktup"
    THEN \A j \in DOMAIN e.parts :
            /\ \A i \in 1..(j - 1) :
                  PartAddrs(c, e.parts)[i] \notin
                     Writes(compile_expr(PartCtx(c, e.parts, j),
                                         e.parts[j]).code)
            /\ SiblingsKept(PartCtx(c, e.parts, j), e.parts[j])
    ELSE TRUE

\* the instructions the last statement has emitted
NewCode == SubSeq(emitted', Len(emitted) + 1, Len(emitted'))

\* C40: in the code of one expression no later sub-expression writes the
\* register of an earlier sibling's result, and no instruction of an
\* expression writes a register bound to a declared variable: only the Copy
\* of an Assign does.
C40_ResultsAndVariablesKept ==
    [][ctx'.state = "ok" =>
          /\ \A e \in TopExprs(LastStmt(ctx')) : SiblingsKept(Fresh(ctx), e)
          /\ \A i \in DOMAIN NewCode :
                NewCode[i].op # "Copy" =>
                   WritesOf(NewCode[i]) \cap Bound(ctx) = {}]_vars

====
